---- MODULE Spec2Model ----
(***************************************************************************)
(* A model of the RVRanger scripts: the importer import_improved_data.py   *)
(* (rv_listings / rv_images upsert), the price and mileage extractors of   *)
(* the scrapers, and the row scraper prevost_scraper.py.                   *)
(*                                                                         *)
(* Optional values (Python None / SQL NULL) are modelled as sequences of   *)
(* length 0 or 1: None == <<>>, Some(v) == <<v>>.  A JSON object is a      *)
(* function from the keys it holds to optional values; an absent key is a  *)
(* key outside its DOMAIN.  Text is a sequence of one-character strings.   *)
(***************************************************************************)
EXTENDS Integers, Sequences, FiniteSets, TLC

VARIABLES
    \* ---- database (shared by every import run) ----
    rv_listings,      \* table rv_listings: sequence of rows, id = index
    rv_images,        \* table rv_images: sequence of rows
    manufacturers,    \* table manufacturers: sequence of names, id = index
    converters,       \* table converters: sequence of names, id = index
    chassis_types,    \* table chassis_types: sequence of names, id = index
    \* ---- one sequential import run (import_listings_to_database) ----
    tx_failed,        \* the connection's transaction is aborted
    counts,           \* [imported, updated, error] counters of the run
    listing,          \* loop variable: the listing of the last iteration
    existing_id,      \* find_existing_listing result of the last iteration (0: None)
    outcome,          \* "none", "created", "updated" or "error"
    submitted,        \* history: <<title, url>> of every additional image handed in
    \* ---- two concurrent import runs ----
    pc,               \* per run: "idle", "found", "ensured", "updated"
    cur,              \* per run: the listing being imported
    found,            \* per run: existing_id seen by find_existing_listing
    ids,              \* per run: [converter_id, chassis_type_id]
    \* ---- extractors ----
    text,             \* the input text
    fn,               \* the extractor applied last
    ret,              \* what it returned (or raised)
    \* ---- prevost_scraper.scrape ----
    listings,         \* the list written to listings.json
    seen,             \* titles already emitted
    \* ---- improved_rv_scraper.download_image ----
    image_download,   \* the call in progress: its arguments, its loop and its result
    \* ---- fix_rv_images.main ----
    image_fix,        \* its step, the local images it found, whether every update succeeded
    \* ---- reset_listings.main ----
    reset_run,        \* its step, whether the scraper was started, the rows deleted per table
    \* ---- prevost_scraper.scrape, the whole run ----
    scrape_run,       \* its step, the rows found on the page, the row and the link reached
    listings_json,    \* the content of listings.json, None before it is written
    \* ---- api.py ----
    api               \* DATA, the request handled last and its response

dbvars   == <<rv_listings, rv_images, manufacturers, converters, chassis_types>>
runvars  == <<tx_failed, counts, listing, existing_id, outcome, submitted>>
concvars == <<pc, cur, found, ids>>
extvars  == <<text, fn, ret>>
scrvars  == <<listings, seen>>
opvars   == <<image_download, image_fix, reset_run, scrape_run, listings_json, api>>
vars     == <<dbvars, runvars, concvars, extvars, scrvars, opvars>>

\* ------------------------------------------------------------------------
\* Optional values and JSON objects
\* ------------------------------------------------------------------------
None == <<>>
Some(v) == <<v>>
Val(o) == o[1]

EmptyObj == [k \in {} |-> None]

\* dict.get(key): None for an absent key
Get(l, k) == IF k \in DOMAIN l THEN l[k] ELSE None
\* dict.get(key, default): the default only for an absent key
GetD(l, k, d) == IF k \in DOMAIN l THEN l[k] ELSE d
\* Python truthiness of an optional string
Truthy(o) == o # None /\ o # Some("")

Range(s) == {s[i] : i \in 1..Len(s)}

\* ------------------------------------------------------------------------
\* Bounds and input values of the importer
\* ------------------------------------------------------------------------
MaxImports == 3     \* iterations of one run's loop
MaxRows == 3        \* rows of rv_listings

T1     == <<"Liberty", " ", "H3-45">>
T1case == <<"liberty", " ", "h3-45">>
T1ws   == <<"Liberty", " ", " ", "H3-45">>

TitleDefault == <<"Luxury RV Listing">>

\* ------------------------------------------------------------------------
\* import_improved_data.py: tables and statements
\* ------------------------------------------------------------------------

\* SELECT id FROM <table> WHERE name = %s, then INSERT ... RETURNING id when
\* there is none: the table afterwards
ensure_table(tbl, name) ==
    IF ~Truthy(name) \/ Val(name) \in Range(tbl) THEN tbl ELSE Append(tbl, Val(name))

\* ... and the id returned (None for a missing name)
ensure_id(tbl, name) ==
    IF ~Truthy(name) THEN None
    ELSE IF Val(name) \in Range(tbl)
         THEN Some(CHOOSE i \in 1..Len(tbl) : tbl[i] = Val(name))
         ELSE Some(Len(tbl) + 1)

\* SELECT id FROM rv_listings WHERE title = %s; fetchone(): the ids it may
\* return, 0 standing for None.  title = NULL matches no row.
find_existing_listing(title, tbl) ==
    LET hits == {i \in 1..Len(tbl) : title # None /\ tbl[i].title = title}
    IN  IF hits = {} THEN {0} ELSE hits

\* a plain assignment in place of COALESCE
COALESCE_overwrite(new, old) == new

\* featured_image = COALESCE(%s, featured_image)
COALESCE(new, old) == IF new # None THEN new ELSE old

\* UPDATE rv_listings SET ... WHERE id = existing_id
update_row(row, l, converter_id, chassis_type_id) ==
    [row EXCEPT
        !.description = GetD(l, "description", Some("")),
        !.year = Get(l, "year"),
        !.price = Get(l, "price"),
        !.mileage = Get(l, "mileage"),
        !.length = Get(l, "length"),
        !.slides = Get(l, "slides"),
        !.converter_id = converter_id,
        !.chassis_type_id = chassis_type_id,
        !.featured_image = COALESCE(Get(l, "featured_image"), @)]

\* INSERT INTO rv_listings (...) VALUES (...)
insert_row(l, manufacturer_id, converter_id, chassis_type_id) ==
    [title |-> GetD(l, "title", Some(TitleDefault)),
     description |-> GetD(l, "description", Some("")),
     year |-> Get(l, "year"),
     price |-> Get(l, "price"),
     mileage |-> Get(l, "mileage"),
     length |-> Get(l, "length"),
     slides |-> Get(l, "slides"),
     manufacturer_id |-> manufacturer_id,
     converter_id |-> converter_id,
     chassis_type_id |-> chassis_type_id,
     featured_image |-> Get(l, "featured_image"),
     location |-> GetD(l, "location", Some("United States"))]

\* rv_images carries the unique index (rv_id, image_url) that the
\* ON CONFLICT (rv_id, image_url) clause names
image_conflict(imgs, rv_id, url) ==
    \E i \in 1..Len(imgs) : imgs[i].rv_id = rv_id /\ imgs[i].image_url = url

image_row(rv_id, url, primary) ==
    [rv_id |-> rv_id, image_url |-> url, is_primary |-> primary]

\* INSERT INTO rv_images ... ON CONFLICT (rv_id, image_url) DO NOTHING
insert_image_do_nothing(imgs, rv_id, url) ==
    IF image_conflict(imgs, rv_id, url) THEN imgs
    ELSE Append(imgs, image_row(rv_id, url, FALSE))

\* the loop over additional_images of an existing listing
RECURSIVE add_images_existing(_, _, _)
add_images_existing(imgs, rv_id, urls) ==
    IF urls = <<>> THEN imgs
    ELSE add_images_existing(insert_image_do_nothing(imgs, rv_id, Head(urls)),
                             rv_id, Tail(urls))

\* INSERT INTO rv_images ... with no ON CONFLICT clause: a duplicate key
\* raises UniqueViolation (ok = FALSE)
insert_image(res, rv_id, url, primary) ==
    IF ~res.ok \/ image_conflict(res.imgs, rv_id, url)
    THEN [ok |-> FALSE, imgs |-> res.imgs]
    ELSE [ok |-> TRUE, imgs |-> Append(res.imgs, image_row(rv_id, url, primary))]

\* the loop over additional_images of a new listing
RECURSIVE add_images_new(_, _, _)
add_images_new(res, rv_id, urls) ==
    IF urls = <<>> THEN res
    ELSE add_images_new(insert_image(res, rv_id, Head(urls), FALSE), rv_id, Tail(urls))

\* additional images, then the primary image when featured_image is truthy
insert_images_new(imgs, rv_id, l) ==
    LET extra == add_images_new([ok |-> TRUE, imgs |-> imgs], rv_id,
                                Val(GetD(l, "additional_images", Some(<<>>))))
    IN  IF Truthy(Get(l, "featured_image"))
        THEN insert_image(extra, rv_id, Val(Get(l, "featured_image")), TRUE)
        ELSE extra

\* ------------------------------------------------------------------------
\* import_improved_data.py: one iteration of import_listings_to_database
\* (find_existing_listing, import_listing_to_database, the counters and the
\* except clause).  A statement that raises leaves the psycopg2 transaction
\* aborted: nothing of the iteration's open transaction is stored, and every
\* later statement on the connection raises as well.
\* ------------------------------------------------------------------------
count(k) == [counts EXCEPT ![k] = @ + 1]

Submit(l) ==
    submitted \cup {<<GetD(l, "title", Some(TitleDefault)), u>> :
                      u \in Range(Val(GetD(l, "additional_images", Some(<<>>))))}

ImportFails(l) ==
    /\ existing_id' = 0
    /\ outcome' = "error"
    /\ counts' = count("error")
    /\ tx_failed' = TRUE
    /\ UNCHANGED <<rv_listings, rv_images>>

ImportUpdates(l, e, converter_id, chassis_type_id) ==
    /\ existing_id' = e
    /\ outcome' = "updated"
    /\ counts' = count("updated")
    /\ rv_listings' = [rv_listings EXCEPT
                         ![e] = update_row(@, l, converter_id, chassis_type_id)]
    /\ rv_images' = add_images_existing(rv_images, e,
                        Val(GetD(l, "additional_images", Some(<<>>))))
    /\ UNCHANGED tx_failed

ImportCreates(l, manufacturer_id, converter_id, chassis_type_id) ==
    LET rv_id == Len(rv_listings) + 1
        res == insert_images_new(rv_images, rv_id, l)
    IN  IF res.ok
        THEN /\ existing_id' = 0
             /\ outcome' = "created"
             /\ counts' = count("imported")
             /\ rv_listings' = Append(rv_listings,
                    insert_row(l, manufacturer_id, converter_id, chassis_type_id))
             /\ rv_images' = res.imgs
             /\ UNCHANGED tx_failed
        ELSE ImportFails(l)

import_listing_to_database(l) ==
    /\ counts.imported + counts.updated + counts.error < MaxImports
    /\ Len(rv_listings) < MaxRows
    /\ listing' = l
    /\ submitted' = Submit(l)
    /\ IF tx_failed
       THEN /\ ImportFails(l)
            /\ UNCHANGED <<manufacturers, converters, chassis_types>>
       ELSE /\ manufacturers' = ensure_table(manufacturers, Get(l, "manufacturer"))
            /\ converters' = ensure_table(converters, Get(l, "converter"))
            /\ chassis_types' = ensure_table(chassis_types, Get(l, "chassis_model"))
            /\ \E e \in find_existing_listing(Get(l, "title"), rv_listings) :
                 LET manufacturer_id == ensure_id(manufacturers, Get(l, "manufacturer"))
                     converter_id == ensure_id(converters, Get(l, "converter"))
                     chassis_type_id == ensure_id(chassis_types, Get(l, "chassis_model"))
                 IN  IF e # 0
                     THEN ImportUpdates(l, e, converter_id, chassis_type_id)
                     ELSE ImportCreates(l, manufacturer_id, converter_id, chassis_type_id)
    /\ UNCHANGED <<concvars, extvars, opvars, scrvars>>

\* main() returns and is started again: a new connection, new counters
NewRun ==
    /\ counts.imported + counts.updated + counts.error > 0
    /\ tx_failed' = FALSE
    /\ counts' = [imported |-> 0, updated |-> 0, error |-> 0]
    /\ listing' = EmptyObj
    /\ existing_id' = 0
    /\ outcome' = "none"
    /\ UNCHANGED <<dbvars, submitted, concvars, extvars, opvars, scrvars>>

\* ------------------------------------------------------------------------
\* Input listings (the objects of improved_prevost_listings.json)
\* ------------------------------------------------------------------------
Opt(k, vals) == {EmptyObj} \cup {k :> Some(v) : v \in vals}
OptNull(k, vals) == Opt(k, vals) \cup {k :> None}

NumFields ==
    {EmptyObj,
     ("year" :> Some(2009)) @@ ("mileage" :> Some(12345))
        @@ ("length" :> Some(45)) @@ ("slides" :> Some(2))}

NameFields ==
    {EmptyObj,
     ("manufacturer" :> Some("Prevost")) @@ ("converter" :> Some("Liberty"))
        @@ ("chassis_model" :> Some("H3-45"))}

\* listings of one title, differing in the merged fields
MergeListings ==
    {("title" :> Some(T1)) @@ d @@ p @@ n @@ c @@ f :
        d \in OptNull("description", {"old", "new desc"}),
        p \in OptNull("price", {500000}),
        n \in NumFields, c \in NameFields,
        f \in Opt("featured_image", {"u1", "u2"})}

\* listings differing in the title, the year and the converter
DedupListings ==
    {t @@ y @@ c :
        t \in Opt("title", {T1, T1case, T1ws}),
        y \in Opt("year", {2009}),
        c \in Opt("converter", {"Liberty"})}

\* listings of one title, differing in the images
ImageListings ==
    {("title" :> Some(T1)) @@ f @@ a :
        f \in Opt("featured_image", {"u1"}),
        a \in Opt("additional_images",
                  {<<>>, <<"u1">>, <<"u2">>, <<"u1", "u2">>, <<"u2", "u2">>, <<"u3">>})}

\* ------------------------------------------------------------------------
\* Initial state: empty tables, no run started
\* ------------------------------------------------------------------------
InitDb ==
    /\ rv_listings = <<>>
    /\ rv_images = <<>>
    /\ manufacturers = <<>>
    /\ converters = <<>>
    /\ chassis_types = <<>>

InitRun ==
    /\ tx_failed = FALSE
    /\ counts = [imported |-> 0, updated |-> 0, error |-> 0]
    /\ listing = EmptyObj
    /\ existing_id = 0
    /\ outcome = "none"
    /\ submitted = {}

InitConc ==
    /\ pc = [p \in {1, 2} |-> "idle"]
    /\ cur = [p \in {1, 2} |-> EmptyObj]
    /\ found = [p \in {1, 2} |-> 0]
    /\ ids = [p \in {1, 2} |-> <<None, None>>]

InitExt ==
    /\ text = <<>>
    /\ fn = "none"
    /\ ret = [tag |-> "None", val |-> 0]

InitScr ==
    /\ listings = <<>>
    /\ seen = {}

\* no call of download_image has been made
InitOps ==
    /\ image_download = [state |-> "idle", max_retries |-> 0, attempt |-> 0, requests |-> 0,
                         outcomes |-> <<>>, result |-> None]
    /\ image_fix = [step |-> "idle", local_images |-> <<>>, all_ok |-> TRUE,
                    replaced |-> 0, aligned |-> 0]
    /\ reset_run = [step |-> "idle", scraper_started |-> FALSE, deleted |-> <<0, 0>>]
    /\ scrape_run = [step |-> "idle", all_rows |-> <<>>, row |-> 1, link |-> 1, repeated |-> 0]
    /\ listings_json = None
    /\ api = [DATA |-> <<>>, items |-> <<>>, sort |-> "", dir |-> "", response |-> [tag |-> "none"]]

Init == InitDb /\ InitRun /\ InitConc /\ InitExt /\ InitScr /\ InitOps

\* sequential imports of listings of one title (the Existing-state merge)
NextMerge == (\E l \in MergeListings : import_listing_to_database(l)) \/ NewRun
SpecMerge == Init /\ [][NextMerge]_vars

\* sequential imports of listings with and without titles (New / Existing)
NextDedup == (\E l \in DedupListings : import_listing_to_database(l)) \/ NewRun
SpecDedup == Init /\ [][NextDedup]_vars

\* sequential imports of listings of one title with images
NextImages == (\E l \in ImageListings : import_listing_to_database(l)) \/ NewRun
SpecImages == Init /\ [][NextImages]_vars

\* listings of import_improved_data.py with and without a title
TitleListings ==
    {t @@ c @@ p :
        t \in OptNull("title", {<<>>, T1}),
        c \in Opt("converter", {"Liberty"}),
        p \in Opt("price", {500000})}

NextTitles == (\E l \in TitleListings : import_listing_to_database(l)) \/ NewRun
SpecTitles == Init /\ [][NextTitles]_vars

\* ------------------------------------------------------------------------
\* Two import runs at once, each on its own connection (READ COMMITTED):
\* a run sees what the other has committed.  The steps of one iteration are
\* the statements between two commits.
\* ------------------------------------------------------------------------
Procs == {1, 2}

ConcListings ==
    {("title" :> Some(T1)) @@ p @@ a :
        p \in Opt("price", {500000, 600000}),
        a \in Opt("additional_images", {<<"u1">>})}

\* lines 316 and 177: the existence check
CFind(p, l) ==
    /\ pc[p] = "idle"
    /\ Len(rv_listings) < MaxRows
    /\ \E e \in find_existing_listing(Get(l, "title"), rv_listings) :
         found' = [found EXCEPT ![p] = e]
    /\ cur' = [cur EXCEPT ![p] = l]
    /\ pc' = [pc EXCEPT ![p] = "found"]
    /\ UNCHANGED <<dbvars, ids, runvars, extvars, opvars, scrvars>>

\* lines 179-192: ensure_manufacturer_exists, ensure_converter_exists,
\* ensure_chassis_type_exists, each committing what it inserts
CEnsure(p) ==
    /\ pc[p] = "found"
    /\ manufacturers' = ensure_table(manufacturers, Get(cur[p], "manufacturer"))
    /\ converters' = ensure_table(converters, Get(cur[p], "converter"))
    /\ chassis_types' = ensure_table(chassis_types, Get(cur[p], "chassis_model"))
    /\ ids' = [ids EXCEPT ![p] =
                 <<ensure_id(manufacturers, Get(cur[p], "manufacturer")),
                   ensure_id(converters, Get(cur[p], "converter")),
                   ensure_id(chassis_types, Get(cur[p], "chassis_model"))>>]
    /\ pc' = [pc EXCEPT ![p] = "ensured"]
    /\ UNCHANGED <<rv_listings, rv_images, cur, found, runvars, extvars, opvars, scrvars>>

\* lines 194-228 (UPDATE, commit) or 244-301 (INSERTs, commit)
CWrite(p) ==
    /\ pc[p] = "ensured"
    /\ IF found[p] # 0
       THEN /\ rv_listings' = [rv_listings EXCEPT
                  ![found[p]] = update_row(@, cur[p], ids[p][2], ids[p][3])]
            /\ pc' = [pc EXCEPT ![p] = "updated"]
            /\ UNCHANGED rv_images
       ELSE LET rv_id == Len(rv_listings) + 1
                res == insert_images_new(rv_images, rv_id, cur[p])
            IN  IF res.ok
                THEN /\ rv_listings' = Append(rv_listings,
                            insert_row(cur[p], ids[p][1], ids[p][2], ids[p][3]))
                     /\ rv_images' = res.imgs
                     /\ pc' = [pc EXCEPT ![p] = "idle"]
                ELSE /\ pc' = [pc EXCEPT ![p] = "failed"]
                     /\ UNCHANGED <<rv_listings, rv_images>>
    /\ UNCHANGED <<manufacturers, converters, chassis_types, cur, found, ids,
                   runvars, extvars, opvars, scrvars>>

\* lines 231-243: the additional images of an existing listing, commit
CImages(p) ==
    /\ pc[p] = "updated"
    /\ rv_images' = add_images_existing(rv_images, found[p],
                        Val(GetD(cur[p], "additional_images", Some(<<>>))))
    /\ pc' = [pc EXCEPT ![p] = "idle"]
    /\ UNCHANGED <<rv_listings, manufacturers, converters, chassis_types,
                   cur, found, ids, runvars, extvars, opvars, scrvars>>

NextConc ==
    \E p \in Procs :
        \/ \E l \in ConcListings : CFind(p, l)
        \/ CEnsure(p)
        \/ CWrite(p)
        \/ CImages(p)
SpecConc == Init /\ [][NextConc]_vars

\* ========================================================================
\* Field extractors of the scrapers.  Text is a sequence of one-character
\* strings; a result is [tag, val] with tag "int", "None" or "ValueError"
\* (the exception float() / int() raises on a string that is no number).
\* ========================================================================
MaxChunks == 3      \* chunks an input text is made of

ReturnInt(n) == [tag |-> "int", val |-> n]
ReturnNone == [tag |-> "None", val |-> 0]
RaiseValueError == [tag |-> "ValueError", val |-> 0]

Digits == {"0", "1", "2", "3", "4", "5", "6", "7", "8", "9"}
DigitVal(c) ==
    CASE c = "0" -> 0 [] c = "1" -> 1 [] c = "2" -> 2 [] c = "3" -> 3 [] c = "4" -> 4
      [] c = "5" -> 5 [] c = "6" -> 6 [] c = "7" -> 7 [] c = "8" -> 8 [] c = "9" -> 9
Whitespace == {" "}

UpperLetters == <<"A", "B", "C", "D", "E", "F", "G", "H", "I", "J", "K", "L", "M", "N", "O", "P", "Q", "R", "S", "T", "U", "V", "W", "X", "Y", "Z">>
LowerLetters == <<"a", "b", "c", "d", "e", "f", "g", "h", "i", "j", "k", "l", "m", "n", "o", "p", "q", "r", "s", "t", "u", "v", "w", "x", "y", "z">>

\* str.lower()
LowerChar(c) ==
    IF \E i \in 1..26 : UpperLetters[i] = c
    THEN LowerLetters[CHOOSE i \in 1..26 : UpperLetters[i] = c]
    ELSE c
Lower(s) == [i \in 1..Len(s) |-> LowerChar(s[i])]

\* s[a-1:b], the slice cut at the end of s
Slice(s, a, b) == SubSeq(s, a, IF b <= Len(s) THEN b ELSE Len(s))

\* w in s
Contains(s, w) ==
    \E i \in 1..(Len(s) - Len(w) + 1) : SubSeq(s, i, i + Len(w) - 1) = w

\* s.replace(c, "")
RECURSIVE Remove(_, _)
Remove(s, cs) ==
    IF s = <<>> THEN <<>>
    ELSE IF Head(s) \in cs THEN Remove(Tail(s), cs)
    ELSE <<Head(s)>> \o Remove(Tail(s), cs)

\* the index of the last character of the longest run of characters of
\* class cls that starts at i (i - 1 when there is none): a greedy cls*
RECURSIVE RunEnd(_, _, _)
RunEnd(s, i, cls) ==
    IF i <= Len(s) /\ s[i] \in cls THEN RunEnd(s, i + 1, cls) ELSE i - 1

\* (?:\.[0-9]+)? at i: the index of the last character matched (i - 1: none)
FracEnd(s, i) ==
    IF i + 1 <= Len(s) /\ s[i] = "." /\ s[i + 1] \in Digits
    THEN RunEnd(s, i + 1, Digits) ELSE i - 1

\* (?:a|b)? at i
OptEnd(s, i, cls) == IF i <= Len(s) /\ s[i] \in cls THEN i ELSE i - 1

RECURSIVE DigitsToNat(_)
DigitsToNat(ds) ==
    IF ds = <<>> THEN 0 ELSE DigitsToNat(SubSeq(ds, 1, Len(ds) - 1)) * 10 + DigitVal(ds[Len(ds)])

RECURSIVE Pow10(_)
Pow10(n) == IF n = 0 THEN 1 ELSE 10 * Pow10(n - 1)

DotCount(body) == Cardinality({i \in 1..Len(body) : body[i] = "."})

\* float(body) of a string of digits and dots: a ValueError unless there is
\* a digit and at most one dot; else the number num / den
FloatOk(body) ==
    /\ \A i \in 1..Len(body) : body[i] \in Digits \cup {"."}
    /\ \E i \in 1..Len(body) : body[i] \in Digits
    /\ DotCount(body) <= 1
FloatNum(body) == DigitsToNat(Remove(body, {"."}))
FloatDen(body) ==
    IF DotCount(body) = 0 THEN 1
    ELSE Pow10(Len(body) - (CHOOSE i \in 1..Len(body) : body[i] = "."))

\* int(float(body) * mult), the float product taken as the exact one
IntOfFloat(body, mult) ==
    IF FloatOk(body)
    THEN ReturnInt((FloatNum(body) * mult) \div FloatDen(body))
    ELSE RaiseValueError

\* re.search of \$\s*(<cls>+(?:\.[0-9]+)?(?:K|M)?): the span <<from, to>> of
\* group 1 of the leftmost match, <<0, 0>> when there is no match
PriceStarts(s, cls) ==
    {i \in 1..Len(s) :
        /\ s[i] = "$"
        /\ RunEnd(s, i + 1, Whitespace) + 1 <= Len(s)
        /\ s[RunEnd(s, i + 1, Whitespace) + 1] \in cls}
PriceGroup(s, cls) ==
    IF PriceStarts(s, cls) = {} THEN <<0, 0>>
    ELSE LET i == CHOOSE k \in PriceStarts(s, cls) : \A m \in PriceStarts(s, cls) : k <= m
             j == RunEnd(s, i + 1, Whitespace) + 1
             e1 == RunEnd(s, j, cls)
             e2 == FracEnd(s, e1 + 1)
             e3 == OptEnd(s, e2 + 1, {"K", "M"})
         IN  <<j, e3>>

\* improved_rv_scraper.py lines 47-63: the regex and the conversion
price_from_match(s) ==
    LET g == PriceGroup(s, Digits \cup {","})
        price_text == SubSeq(s, g[1], g[2])
    IN  IF g = <<0, 0>> THEN ReturnNone
        ELSE IF price_text[Len(price_text)] = "K"
             THEN IntOfFloat(Remove(price_text, {"K", ","}), 1000)
        ELSE IF price_text[Len(price_text)] = "M"
             THEN IntOfFloat(Remove(price_text, {"M", ","}), 1000000)
        ELSE IntOfFloat(Remove(price_text, {","}), 1)

\* the "Please Call For Pricing" test
call_for_pricing(s) == Contains(Lower(s), <<"c", "a", "l", "l">>) /\ Contains(Lower(s), <<"p", "r", "i", "c", "i", "n", "g">>)

SentinelPrice == 999999

\* improved_rv_scraper.extract_price
improved_rv_scraper_extract_price(s) ==
    IF s = <<>> THEN ReturnNone
    ELSE IF call_for_pricing(s) THEN ReturnInt(SentinelPrice)
    ELSE price_from_match(s)

\* scripts/prevost_scraper.extract_price: the same text
scripts_prevost_scraper_extract_price(s) ==
    IF s = <<>> THEN ReturnNone
    ELSE IF call_for_pricing(s) THEN ReturnInt(SentinelPrice)
    ELSE price_from_match(s)

\* scrape_prevost.extract_price
scrape_prevost_extract_price(s) ==
    LET g == PriceGroup(s, Digits \cup {",", "."})
        price_text == SubSeq(s, g[1], g[2])
    IN  IF s = <<>> \/ g = <<0, 0>> THEN ReturnNone
        ELSE IF "K" \in Range(price_text)
             THEN IntOfFloat(Remove(price_text, {"K", ","}), 1000)
        ELSE IF "M" \in Range(price_text)
             THEN IntOfFloat(Remove(price_text, {"M", ","}), 1000000)
        ELSE IntOfFloat(Remove(price_text, {","}), 1)

\* re.search of ([0-9,]+(?:\.[0-9]+)?(?:K|k)?)[\s-]*miles, IGNORECASE: the
\* end of group 1 of a match that starts at i (0 when none starts there)
MileageEnd(s, i) ==
    LET e1 == RunEnd(s, i, Digits \cup {","})
        e2 == FracEnd(s, e1 + 1)
        e3 == OptEnd(s, e2 + 1, {"K", "k"})
        e4 == RunEnd(s, e3 + 1, Whitespace \cup {"-"})
    IN  IF e1 >= i /\ Lower(Slice(s, e4 + 1, e4 + 5)) = <<"m", "i", "l", "e", "s">> THEN e3 ELSE 0
MileageStarts(s) == {i \in 1..Len(s) : MileageEnd(s, i) # 0}

\* scrape_prevost.extract_mileage
scrape_prevost_extract_mileage(s) ==
    IF s = <<>> \/ MileageStarts(s) = {} THEN ReturnNone
    ELSE LET i == CHOOSE k \in MileageStarts(s) : \A m \in MileageStarts(s) : k <= m
             mileage_text == SubSeq(s, i, MileageEnd(s, i))
         IN  IF "K" \in Range(mileage_text) \/ "k" \in Range(mileage_text)
             THEN IntOfFloat(Remove(Lower(mileage_text), {"k", ","}), 1000)
             ELSE IntOfFloat(Remove(mileage_text, {","}), 1)

\* int(s) of a string of digits: a ValueError on the empty string
IntOf(body) ==
    IF body # <<>> /\ \A i \in 1..Len(body) : body[i] \in Digits
    THEN ReturnInt(DigitsToNat(body)) ELSE RaiseValueError

\* re.search of \$[\d,]+: the span of the leftmost match, <<0, 0>> when none
DollarStarts(s) ==
    {i \in 1..Len(s) : s[i] = "$" /\ i + 1 <= Len(s) /\ s[i + 1] \in Digits \cup {","}}
DollarMatch(s) ==
    IF DollarStarts(s) = {} THEN <<0, 0>>
    ELSE LET i == CHOOSE k \in DollarStarts(s) : \A m \in DollarStarts(s) : k <= m
         IN  <<i, RunEnd(s, i + 1, Digits \cup {","})>>

\* enhanced_scraper.extract_price: the ValueError of int() is caught
enhanced_scraper_extract_price(s) ==
    LET g == DollarMatch(s)
        r == IntOf(Remove(SubSeq(s, g[1], g[2]), {"$", ","}))
    IN  IF g = <<0, 0>> \/ r.tag = "ValueError" THEN ReturnNone ELSE r

\* ------------------------------------------------------------------------
\* Input texts: up to MaxChunks chunks, one after the other
\* ------------------------------------------------------------------------
PleaseCallForPricing == <<"P", "l", "e", "a", "s", "e", " ", "c", "a", "l", "l", " ", "f", "o", "r", " ", "p", "r", "i", "c", "i", "n", "g">>
PLEASE_CALL_FOR_PRICING == <<"P", "L", "E", "A", "S", "E", " ", "C", "A", "L", "L", " ", "F", "O", "R", " ", "P", "R", "I", "C", "I", "N", "G">>

Chunks ==
    {<<"$">>, <<" ">>, <<"1">>, <<"2">>, <<",">>, <<".">>, <<"K">>, <<"M">>,
     <<"a", "b", "c">>, <<"m", "i", "l", "e", "s">>, PleaseCallForPricing, PLEASE_CALL_FOR_PRICING}

RECURSIVE Flatten(_)
Flatten(cs) == IF cs = <<>> THEN <<>> ELSE Head(cs) \o Flatten(Tail(cs))

ChunkTexts == {Flatten(cs) : cs \in UNION {[1..n -> Chunks] : n \in 0..MaxChunks}}

\* texts that hold a price in one of the three notations
PricePhrases ==
    {<<"$", "1", ",", "2", "3", "4", ",", "5", "6", "7">>,
     <<"$", "9", "5", "0", "K">>,
     <<"$", "1", ".", "2", "M">>}
PriceTexts ==
    {a \o p \o b : a \in {<<>>, <<"a", "b", "c", " ">>, <<"$", "1", " ">>}, p \in PricePhrases,
                   b \in {<<>>, <<" ">>, <<"a", "b", "c">>}}

Texts == ChunkTexts \cup PriceTexts

InitExtract ==
    /\ InitDb /\ InitRun /\ InitConc /\ InitScr /\ InitOps
    /\ text \in Texts
    /\ fn = "none"
    /\ ret = ReturnNone

Call_improved_rv_scraper_extract_price ==
    /\ fn' = "improved_rv_scraper.extract_price"
    /\ ret' = improved_rv_scraper_extract_price(text)
    /\ UNCHANGED <<text, dbvars, runvars, concvars, scrvars, opvars>>

Call_scripts_prevost_scraper_extract_price ==
    /\ fn' = "scripts/prevost_scraper.extract_price"
    /\ ret' = scripts_prevost_scraper_extract_price(text)
    /\ UNCHANGED <<text, dbvars, runvars, concvars, scrvars, opvars>>

Call_scrape_prevost_extract_price ==
    /\ fn' = "scrape_prevost.extract_price"
    /\ ret' = scrape_prevost_extract_price(text)
    /\ UNCHANGED <<text, dbvars, runvars, concvars, scrvars, opvars>>

Call_scrape_prevost_extract_mileage ==
    /\ fn' = "scrape_prevost.extract_mileage"
    /\ ret' = scrape_prevost_extract_mileage(text)
    /\ UNCHANGED <<text, dbvars, runvars, concvars, scrvars, opvars>>

Call_enhanced_scraper_extract_price ==
    /\ fn' = "enhanced_scraper.extract_price"
    /\ ret' = enhanced_scraper_extract_price(text)
    /\ UNCHANGED <<text, dbvars, runvars, concvars, scrvars, opvars>>

NextExtract ==
    \/ Call_improved_rv_scraper_extract_price
    \/ Call_scripts_prevost_scraper_extract_price
    \/ Call_scrape_prevost_extract_price
    \/ Call_scrape_prevost_extract_mileage
    \/ Call_enhanced_scraper_extract_price
SpecExtract == InitExtract /\ [][NextExtract]_vars

\* ========================================================================
\* prevost_scraper.py: scrape(), one link of one table row at a time
\* ========================================================================
MAX_ITEMS == 20
MaxScraped == 1     \* listings emitted in the model
MaxRowChunks == 3   \* chunks a row's text is made of

WordChars == Range(UpperLetters) \cup Range(LowerLetters) \cup Digits \cup {"_"}
IsWordAt(s, i) == i >= 1 /\ i <= Len(s) /\ s[i] \in WordChars

\* \b between s[i - 1] and s[i]
Boundary(s, i) == IsWordAt(s, i - 1) # IsWordAt(s, i)

\* str.strip()
RECURSIVE LStrip(_)
LStrip(s) == IF s # <<>> /\ Head(s) \in Whitespace THEN LStrip(Tail(s)) ELSE s
RECURSIVE RStrip(_)
RStrip(s) ==
    IF s # <<>> /\ s[Len(s)] \in Whitespace THEN RStrip(SubSeq(s, 1, Len(s) - 1)) ELSE s
Strip(s) == LStrip(RStrip(s))

\* the least member of a non-empty set of positions
Least(S) == CHOOSE k \in S : \A m \in S : k <= m

\* w matches at i, letter case ignored
MatchesAt(s, i, w) == i + Len(w) - 1 <= Len(s) /\ Lower(SubSeq(s, i, i + Len(w) - 1)) = Lower(w)

\* re.search(label + r"\s*(<cls>+)", row_text, re.I): the span of group 1 of
\* the leftmost match, <<0, 0>> when there is none
LabelStarts(s, label, cls) ==
    {i \in 1..Len(s) :
        /\ MatchesAt(s, i, label)
        /\ LET j == RunEnd(s, i + Len(label), Whitespace) + 1
           IN  j <= Len(s) /\ s[j] \in cls}
LabelGroup(s, label, cls) ==
    IF LabelStarts(s, label, cls) = {} THEN <<0, 0>>
    ELSE LET i == Least(LabelStarts(s, label, cls))
             j == RunEnd(s, i + Len(label), Whitespace) + 1
         IN  <<j, RunEnd(s, j, cls)>>

ModelChars == (WordChars \ {"_"}) \cup {"-"}

\* re.search(r"Model:\s*([A-Z0-9\-]+)", row_text, re.I)
model_label(s) ==
    LET g == LabelGroup(s, <<"M", "o", "d", "e", "l", ":">>, ModelChars)
    IN  IF g = <<0, 0>> THEN None ELSE Some(SubSeq(s, g[1], g[2]))

\* re.search(r"\b(a|b|...)\b", row_text, re.I): the text of the leftmost
\* match, the alternatives tried in order at each position
WordAt(s, i, w) == MatchesAt(s, i, w) /\ Boundary(s, i) /\ Boundary(s, i + Len(w))
first_word(s, alts) ==
    LET starts == {i \in 1..Len(s) : \E a \in 1..Len(alts) : WordAt(s, i, alts[a])}
    IN  IF starts = {} THEN None
        ELSE LET i == Least(starts)
                 a == Least({k \in 1..Len(alts) : WordAt(s, i, alts[k])})
             IN  Some(SubSeq(s, i, i + Len(alts[a]) - 1))

model_patterns == <<<<<<"H", "3", "-", "4", "5">>, <<"X", "L", "I", "I">>, <<"X", "3", "-", "4", "5">>, <<"X", "L">>>>, <<<<"X", "3">>, <<"H", "3">>>>>>

\* lines 114-124: the "Model:" label, else the model patterns in order
scrape_model(s) ==
    IF model_label(s) # None THEN model_label(s)
    ELSE IF first_word(s, model_patterns[1]) # None THEN first_word(s, model_patterns[1])
    ELSE first_word(s, model_patterns[2])

\* re.search(r"Converter:\s*([^$|]+)", row_text, re.I), group 1 stripped
converter_label(s) ==
    LET starts == {i \in 1..Len(s) :
                     /\ MatchesAt(s, i, <<"C", "o", "n", "v", "e", "r", "t", "e", "r", ":">>)
                     /\ i + Len(<<"C", "o", "n", "v", "e", "r", "t", "e", "r", ":">>) <= Len(s)
                     /\ s[i + Len(<<"C", "o", "n", "v", "e", "r", "t", "e", "r", ":">>)] \notin {"$", "|"}}
    IN  IF starts = {} THEN None
        ELSE LET j == Least(starts) + Len(<<"C", "o", "n", "v", "e", "r", "t", "e", "r", ":">>)
                 e == RunEnd(s, j, Range(s) \ {"$", "|"})
             IN  Some(Strip(SubSeq(s, j, e)))

converter_names == <<<<"M", "a", "r", "a", "t", "h", "o", "n">>,
      <<"L", "i", "b", "e", "r", "t", "y">>,
      <<"M", "i", "l", "l", "e", "n", "n", "i", "u", "m">>,
      <<"F", "e", "a", "t", "h", "e", "r", "l", "i", "t", "e">>,
      <<"C", "o", "u", "n", "t", "r", "y", " ", "C", "o", "a", "c", "h">>,
      <<"R", "o", "y", "a", "l", "e">>,
      <<"E", "m", "e", "r", "a", "l", "d">>>>

\* lines 129-138: the "Converter:" label, else the first known name found
scrape_converter(s) ==
    LET c == converter_label(s)
        hits == {k \in 1..Len(converter_names) : Contains(Lower(s), Lower(converter_names[k]))}
    IN  IF c # None /\ c # Some(<<>>) THEN c
        ELSE IF hits = {} THEN c
        ELSE Some(converter_names[Least(hits)])

\* re.search(r"\b(19|20)\d{2}\b", row_text)
scrape_year(s) ==
    LET starts == {i \in 1..(Len(s) - 3) :
                     /\ SubSeq(s, i, i + 1) \in {<<"1", "9">>, <<"2", "0">>}
                     /\ s[i + 2] \in Digits /\ s[i + 3] \in Digits
                     /\ Boundary(s, i) /\ Boundary(s, i + 4)}
    IN  IF starts = {} THEN None
        ELSE Some(DigitsToNat(SubSeq(s, Least(starts), Least(starts) + 3)))

\* re.search(r"Slides?:\s*(\d)", row_text, re.I), 0 when there is none
scrape_slides(s) ==
    LET g1 == LabelGroup(s, <<"S", "l", "i", "d", "e", "s", ":">>, Digits)
        g2 == LabelGroup(s, <<"S", "l", "i", "d", "e", ":">>, Digits)
        g == IF g1 = <<0, 0>> THEN g2
             ELSE IF g2 = <<0, 0>> THEN g1
             ELSE IF g1[1] <= g2[1] THEN g1 ELSE g2
    IN  IF g = <<0, 0>> THEN 0 ELSE DigitVal(s[g[1]])

\* row_text.split("$")[0].strip()[:100]
title_from_row(s) ==
    LET dollars == {i \in 1..Len(s) : s[i] = "$"}
        head == IF dollars = {} THEN s ELSE SubSeq(s, 1, Least(dollars) - 1)
    IN  Slice(Strip(head), 1, 100)

\* lines 92-95
scrape_title(link_text, s) ==
    IF link_text = <<>> \/ Len(link_text) < 5 THEN title_from_row(s) ELSE link_text

\* lines 83-89: the price of the row, a ValueError of int() skipping the link
scrape_price(s) ==
    IF DollarMatch(s) = <<0, 0>> THEN ReturnNone
    ELSE IntOf(Remove(SubSeq(s, DollarMatch(s)[1], DollarMatch(s)[2]), {"$", ","}))

BASE_URL == <<"h", "t", "t", "p", "s", ":", "/", "/", "w", "w", "w", ".", "p", "r", "e", "v", "o", "s", "t", "-", "s", "t", "u", "f", "f", ".", "c", "o", "m">>

\* urljoin(base, href) of a relative href against a base without a path
urljoin(base, href) == base \o <<"/">> \o href

\* lines 140-149
scrape_listing(s, href, title, featured) ==
    [title |-> title,
     detail_url |-> urljoin(BASE_URL, href),
     price |-> scrape_price(s).val,
     year |-> scrape_year(s),
     model |-> scrape_model(s),
     slides |-> scrape_slides(s),
     converter |-> scrape_converter(s),
     featured_image |-> featured]

\* lines 74-99 without the test `title in seen`
scrape_skips_unseen(s, href, title) ==
    \/ ~Contains(href, <<"a", "d", "_", "i", "d">>)
    \/ s = <<>>
    \/ scrape_price(s).tag # "int"
    \/ title = <<>>

\* lines 74-99: the link is skipped
scrape_skips(s, href, title) ==
    \/ ~Contains(href, <<"a", "d", "_", "i", "d">>)
    \/ s = <<>>
    \/ scrape_price(s).tag # "int"
    \/ title \in seen
    \/ title = <<>>

RowChunks ==
    {<<"M", "o", "d", "e", "l", ":">>, <<"C", "o", "n", "v", "e", "r", "t", "e", "r", ":">>, <<" ">>, <<"H", "3", "-", "4", "5">>, <<"F", "o", "o">>, <<"L", "i", "b", "e", "r", "t", "y">>, <<"$", "1">>}
RowTexts == {Strip(Flatten(cs)) : cs \in UNION {[1..n -> RowChunks] : n \in 0..MaxRowChunks}}
LinkTexts == {<<>>, <<"C", "o", "a", "c", "h", " ", "A">>, <<"C", "o", "a", "c", "h", " ", "B">>}
Hrefs == {<<"a", "d", ".", "p", "h", "p", "?", "a", "d", "_", "i", "d", "=", "7">>, <<"i", "n", "d", "e", "x", ".", "h", "t", "m">>}
\* download_img: None, or the web path of the saved file
Downloads == {None, Some(<<"/", "i", "m", "a", "g", "e", "s", "/", "r", "v", "_", "l", "i", "s", "t", "i", "n", "g", "s", "/", "r", "v", ".", "j", "p", "g">>)}

\* one link of one row (lines 74-152); past MAX_ITEMS the loops have ended
ScrapeLink(s, link_text, href) ==
    LET title == scrape_title(link_text, s)
    IN  /\ Len(listings) < MAX_ITEMS
        /\ Len(listings) < MaxScraped
        /\ ~scrape_skips(s, href, title)
        /\ seen' = seen \cup {title}
        /\ \E featured \in Downloads :
             listings' = Append(listings, scrape_listing(s, href, title, featured))
        /\ UNCHANGED <<dbvars, runvars, concvars, extvars, opvars>>

\* a link that is skipped leaves listings and seen as they are
SkipLink(s, link_text, href) ==
    /\ Len(listings) < MAX_ITEMS
    /\ Len(listings) < MaxScraped
    /\ scrape_skips(s, href, scrape_title(link_text, s))
    /\ UNCHANGED vars

NextScrape ==
    \E s \in RowTexts, link_text \in LinkTexts, href \in Hrefs :
        \/ ScrapeLink(s, link_text, href)
        \/ SkipLink(s, link_text, href)
SpecScrape == Init /\ [][NextScrape]_vars

\* ------------------------------------------------------------------------
\* import_enhanced_listings.py: one iteration of import_listings_to_database
\* (every listing is inserted; there is no lookup of an existing row)
\* ------------------------------------------------------------------------
\* lines 162-172: manufacturer, else manufacturerId, else "Prevost"
enhanced_manufacturers(tbl, l) ==
    IF Truthy(Get(l, "manufacturer")) THEN ensure_table(tbl, Get(l, "manufacturer"))
    ELSE IF Get(l, "manufacturerId") # None /\ Get(l, "manufacturerId") # Some(0) THEN tbl
    ELSE ensure_table(tbl, Some("Prevost"))
enhanced_manufacturer_id(tbl, l) ==
    IF Truthy(Get(l, "manufacturer")) THEN ensure_id(tbl, Get(l, "manufacturer"))
    ELSE IF Get(l, "manufacturerId") # None /\ Get(l, "manufacturerId") # Some(0)
         THEN Get(l, "manufacturerId")
    ELSE ensure_id(tbl, Some("Prevost"))

\* lines 190-193: a missing price becomes the placeholder price
enhanced_price(l) == IF Get(l, "price") = None THEN Some(SentinelPrice) ELSE Get(l, "price")

\* listing.get("featured_image", listing.get("featuredImage"))
enhanced_featured_image(l) == GetD(l, "featured_image", Get(l, "featuredImage"))

\* INSERT INTO rv_listings (...) VALUES (...), lines 196-223
enhanced_insert_row(l, manufacturer_id, converter_id, chassis_type_id) ==
    [title |-> GetD(l, "title", Some(TitleDefault)),
     description |-> GetD(l, "description", Some("")),
     year |-> Get(l, "year"),
     price |-> enhanced_price(l),
     mileage |-> Get(l, "mileage"),
     length |-> Get(l, "length"),
     slides |-> Get(l, "slides"),
     manufacturer_id |-> manufacturer_id,
     converter_id |-> converter_id,
     chassis_type_id |-> chassis_type_id,
     featured_image |-> enhanced_featured_image(l),
     location |-> GetD(l, "location", Some("United States"))]

\* an item of additional_images: a URL string (dict = FALSE) or an object
\* with imageUrl and isPrimary (dict = TRUE)
StrImage(u) == [dict |-> FALSE, imageUrl |-> u, isPrimary |-> FALSE]
DictImage(u, p) == [dict |-> TRUE, imageUrl |-> u, isPrimary |-> p]

\* lines 229-246: the loop over the additional images
RECURSIVE enhanced_add_images(_, _, _)
enhanced_add_images(res, rv_id, items) ==
    IF items = <<>> THEN res
    ELSE enhanced_add_images(
            insert_image(res, rv_id, Head(items).imageUrl,
                         Head(items).dict /\ Head(items).isPrimary),
            rv_id, Tail(items))

\* lines 229-257: additional images, then the featured image as primary
enhanced_insert_images(imgs, rv_id, l) ==
    LET items == Val(GetD(l, "additional_images", GetD(l, "additionalImages", Some(<<>>))))
        extra == enhanced_add_images([ok |-> TRUE, imgs |-> imgs], rv_id, items)
    IN  IF Truthy(enhanced_featured_image(l))
        THEN insert_image(extra, rv_id, Val(enhanced_featured_image(l)), TRUE)
        ELSE extra

\* one iteration of the loop of lines 273-281.  The row is committed (line
\* 224) before the images are inserted, so an image insert that raises
\* leaves the row stored and the connection's transaction aborted.
import_enhanced_listing_to_database(l) ==
    /\ counts.imported + counts.updated + counts.error < MaxImports
    /\ Len(rv_listings) < MaxRows
    /\ listing' = l
    /\ existing_id' = 0
    /\ UNCHANGED submitted
    /\ IF tx_failed
       THEN /\ outcome' = "error"
            /\ counts' = count("error")
            /\ UNCHANGED <<tx_failed, dbvars>>
       ELSE LET rv_id == Len(rv_listings) + 1
                res == enhanced_insert_images(rv_images, rv_id, l)
            IN  /\ manufacturers' = enhanced_manufacturers(manufacturers, l)
                /\ converters' = ensure_table(converters, Get(l, "converter"))
                /\ chassis_types' = ensure_table(chassis_types, Get(l, "chassis_model"))
                /\ rv_listings' = Append(rv_listings,
                      enhanced_insert_row(l, enhanced_manufacturer_id(manufacturers, l),
                                          ensure_id(converters, Get(l, "converter")),
                                          ensure_id(chassis_types, Get(l, "chassis_model"))))
                /\ rv_images' = IF res.ok THEN res.imgs ELSE rv_images
                /\ tx_failed' = ~res.ok
                /\ outcome' = IF res.ok THEN "created" ELSE "error"
                /\ counts' = IF res.ok THEN count("imported") ELSE count("error")
    /\ UNCHANGED <<concvars, extvars, opvars, scrvars>>

\* the objects of the input file: with and without a price, in snake_case
\* and in camelCase
EnhancedVariants ==
    {EmptyObj,
     ("manufacturer" :> Some("Marathon")) @@ ("converter" :> Some("Liberty"))
        @@ ("chassis_model" :> Some("H3-45")) @@ ("featured_image" :> Some("u1"))
        @@ ("additional_images" :> Some(<<StrImage("u2")>>)),
     ("manufacturerId" :> Some(7)) @@ ("featuredImage" :> Some("u2"))
        @@ ("additionalImages" :> Some(<<DictImage("u3", TRUE), StrImage("u1")>>)),
     ("featured_image" :> Some("u1")) @@ ("additional_images" :> Some(<<StrImage("u1")>>))}
EnhancedListings ==
    {("title" :> Some(T1)) @@ p @@ v :
        p \in OptNull("price", {SentinelPrice, 500000}), v \in EnhancedVariants}

NextEnhanced == (\E l \in EnhancedListings : import_enhanced_listing_to_database(l)) \/ NewRun
SpecEnhanced == Init /\ [][NextEnhanced]_vars

\* ------------------------------------------------------------------------
\* Year extractors
\* ------------------------------------------------------------------------
MaxYearChunks == 3

\* \b(20[0-2][0-9])\b matches at i
FullYearAt(s, i) ==
    /\ i + 3 <= Len(s)
    /\ Boundary(s, i) /\ Boundary(s, i + 4)
    /\ s[i] = "2" /\ s[i + 1] = "0" /\ s[i + 2] \in {"0", "1", "2"} /\ s[i + 3] \in Digits

\* \b\'([0-2][0-9])\b matches at i
ShortYearAt(s, i) ==
    /\ i + 2 <= Len(s)
    /\ Boundary(s, i) /\ Boundary(s, i + 3)
    /\ s[i] = "'" /\ s[i + 1] \in {"0", "1", "2"} /\ s[i + 2] \in Digits

\* improved_rv_scraper.extract_year: the leftmost match of either form
improved_rv_scraper_extract_year(s) ==
    LET starts == {i \in 1..Len(s) : FullYearAt(s, i) \/ ShortYearAt(s, i)}
    IN  IF s = <<>> \/ starts = {} THEN ReturnNone
        ELSE IF FullYearAt(s, Least(starts))
             THEN ReturnInt(DigitsToNat(SubSeq(s, Least(starts), Least(starts) + 3)))
        ELSE ReturnInt(2000 + DigitsToNat(SubSeq(s, Least(starts) + 1, Least(starts) + 2)))

\* scrape_prevost.extract_year: the same text
scrape_prevost_extract_year(s) ==
    LET starts == {i \in 1..Len(s) : FullYearAt(s, i) \/ ShortYearAt(s, i)}
    IN  IF s = <<>> \/ starts = {} THEN ReturnNone
        ELSE IF FullYearAt(s, Least(starts))
             THEN ReturnInt(DigitsToNat(SubSeq(s, Least(starts), Least(starts) + 3)))
        ELSE ReturnInt(2000 + DigitsToNat(SubSeq(s, Least(starts) + 1, Least(starts) + 2)))

\* enhanced_scraper.extract_year: re.search(r"\b(19|20)\d{2}\b", text)
enhanced_scraper_extract_year(s) ==
    IF scrape_year(s) = None THEN ReturnNone ELSE ReturnInt(Val(scrape_year(s)))

\* table_scraper.extract_year: re.search(r"Year:(\d{4})", text)
table_scraper_extract_year(s) ==
    LET starts == {i \in 1..(Len(s) - 8) :
                     /\ SubSeq(s, i, i + 4) = <<"Y", "e", "a", "r", ":">>
                     /\ \A k \in 5..8 : s[i + k] \in Digits}
    IN  IF s = <<>> \/ starts = {} THEN ReturnNone
        ELSE ReturnInt(DigitsToNat(SubSeq(s, Least(starts) + 5, Least(starts) + 8)))

\* improved_rv_scraper.scrape_listings, lines 397-403: the year of a link,
\* re.search(r'^(\d{4})Prevost', title_part); None when the link is skipped
scrape_listings_year(title_part) ==
    IF /\ Len(title_part) >= 11
       /\ \A k \in 1..4 : title_part[k] \in Digits
       /\ SubSeq(title_part, 5, 11) = <<"P", "r", "e", "v", "o", "s", "t">>
    THEN ReturnInt(DigitsToNat(SubSeq(title_part, 1, 4)))
    ELSE ReturnNone

YearChunks ==
    {<<"'">>, <<"2", "0">>, <<"2", "2">>, <<"1", "9">>, <<"9", "9">>, <<" ">>, <<"a">>,
     <<"Y", "e", "a", "r", ":">>, <<"P", "r", "e", "v", "o", "s", "t">>}
YearTexts == {Flatten(cs) : cs \in UNION {[1..n -> YearChunks] : n \in 0..MaxYearChunks}}

InitYear ==
    /\ InitDb /\ InitRun /\ InitConc /\ InitScr /\ InitOps
    /\ text \in YearTexts
    /\ fn = "none"
    /\ ret = ReturnNone

Call_improved_rv_scraper_extract_year ==
    /\ fn' = "improved_rv_scraper.extract_year"
    /\ ret' = improved_rv_scraper_extract_year(text)
    /\ UNCHANGED <<text, dbvars, runvars, concvars, scrvars, opvars>>

Call_scrape_prevost_extract_year ==
    /\ fn' = "scrape_prevost.extract_year"
    /\ ret' = scrape_prevost_extract_year(text)
    /\ UNCHANGED <<text, dbvars, runvars, concvars, scrvars, opvars>>

Call_enhanced_scraper_extract_year ==
    /\ fn' = "enhanced_scraper.extract_year"
    /\ ret' = enhanced_scraper_extract_year(text)
    /\ UNCHANGED <<text, dbvars, runvars, concvars, scrvars, opvars>>

Call_table_scraper_extract_year ==
    /\ fn' = "table_scraper.extract_year"
    /\ ret' = table_scraper_extract_year(text)
    /\ UNCHANGED <<text, dbvars, runvars, concvars, scrvars, opvars>>

Call_improved_rv_scraper_scrape_listings_year ==
    /\ fn' = "improved_rv_scraper.scrape_listings year"
    /\ ret' = scrape_listings_year(text)
    /\ UNCHANGED <<text, dbvars, runvars, concvars, scrvars, opvars>>

NextYear ==
    \/ Call_improved_rv_scraper_scrape_listings_year
    \/ Call_improved_rv_scraper_extract_year
    \/ Call_scrape_prevost_extract_year
    \/ Call_enhanced_scraper_extract_year
    \/ Call_table_scraper_extract_year
SpecYear == InitYear /\ [][NextYear]_vars

\* ------------------------------------------------------------------------
\* Chassis model detection
\* ------------------------------------------------------------------------
MaxChassisChunks == 4

\* enhanced_scraper.py line 38 and improved_scraper.py line 38
enhanced_scraper_CHASSIS_MODELS ==
    <<<<"H", "3", "-", "4", "5">>,
      <<"X", "3", "-", "4", "5">>,
      <<"X", "L", "I", "I">>,
      <<"X", "L">>,
      <<"H", "3", "4", "5">>,
      <<"X", "3", "4", "5">>,
      <<"H", "3">>,
      <<"X", "3">>>>
improved_scraper_CHASSIS_MODELS ==
    <<<<"H", "3", "-", "4", "5">>,
      <<"H", "3">>,
      <<"X", "3", "-", "4", "5">>,
      <<"X", "3">>,
      <<"X", "L", "I", "I">>,
      <<"X", "L">>,
      <<"H", "3", "4", "5">>,
      <<"X", "3", "4", "5">>>>

\* the first model of the list that re.search(r'\b' + re.escape(model) +
\* r'\b', text, re.IGNORECASE) finds in the text
first_model(s, models) ==
    LET hits == {k \in 1..Len(models) : \E i \in 1..Len(s) : WordAt(s, i, models[k])}
    IN  IF hits = {} THEN None ELSE Some(models[Least(hits)])

enhanced_scraper_detect_chassis_model(s) == first_model(s, enhanced_scraper_CHASSIS_MODELS)
improved_scraper_detect_chassis_model(s) == first_model(s, improved_scraper_CHASSIS_MODELS)

ChassisChunks ==
    {<<"H", "3", "-", "4", "5">>,
     <<"H", "3">>,
     <<"X", "3", "-", "4", "5">>,
     <<"X", "3">>,
     <<" ">>,
     <<"M", "o", "d", "e", "l", ":">>}
ChassisTexts ==
    {Flatten(cs) : cs \in UNION {[1..n -> ChassisChunks] : n \in 0..MaxChassisChunks}}

InitChassis ==
    /\ InitDb /\ InitRun /\ InitConc /\ InitScr /\ InitOps
    /\ text \in ChassisTexts
    /\ fn = "none"
    /\ ret = None

Call_enhanced_scraper_detect_chassis_model ==
    /\ fn' = "enhanced_scraper.detect_chassis_model"
    /\ ret' = enhanced_scraper_detect_chassis_model(text)
    /\ UNCHANGED <<text, dbvars, runvars, concvars, scrvars, opvars>>

Call_improved_scraper_detect_chassis_model ==
    /\ fn' = "improved_scraper.detect_chassis_model"
    /\ ret' = improved_scraper_detect_chassis_model(text)
    /\ UNCHANGED <<text, dbvars, runvars, concvars, scrvars, opvars>>

\* the model prevost_scraper.scrape takes from a row's text (lines 114-124)
Call_prevost_scraper_scrape_model ==
    /\ fn' = "prevost_scraper.scrape model"
    /\ ret' = scrape_model(text)
    /\ UNCHANGED <<text, dbvars, runvars, concvars, scrvars, opvars>>

NextChassis ==
    \/ Call_enhanced_scraper_detect_chassis_model
    \/ Call_improved_scraper_detect_chassis_model
    \/ Call_prevost_scraper_scrape_model
SpecChassis == InitChassis /\ [][NextChassis]_vars

\* ------------------------------------------------------------------------
\* import_table_listings.py.  Names and titles are sequences of tokens (a
\* word, or one character) whose concatenation is the Python string.
\* ------------------------------------------------------------------------
MaxTableRows == 2     \* rows of rv_listings in the runs of import_table_listings.py

\* truthiness of an optional string / an optional number
TruthyText(o) == o # None /\ o # Some(<<>>)
TruthyNum(o) == o # None /\ o # Some(0)

\* str(n) of a natural number
DigitChar(d) == CHOOSE c \in Digits : DigitVal(c) = d
RECURSIVE IntToStr(_)
IntToStr(n) == IF n < 10 THEN <<DigitChar(n)>> ELSE IntToStr(n \div 10) \o <<DigitChar(n % 10)>>

\* f"{n:,}": the digits in groups of three
RECURSIVE FormatThousands(_)
FormatThousands(n) ==
    IF n < 1000 THEN IntToStr(n)
    ELSE FormatThousands(n \div 1000)
            \o <<",", DigitChar((n % 1000) \div 100), DigitChar((n % 100) \div 10), DigitChar(n % 10)>>

\* sep.join(parts)
RECURSIVE Join(_, _)
Join(parts, sep) ==
    IF parts = <<>> THEN <<>>
    ELSE IF Len(parts) = 1 THEN parts[1]
    ELSE parts[1] \o sep \o Join(Tail(parts), sep)

\* the part of a list that a field contributes: nothing when it is falsy
TextPart(l, k, label) == IF TruthyText(Get(l, k)) THEN <<label \o Val(Get(l, k))>> ELSE <<>>
NumPart(l, k, label) == IF TruthyNum(Get(l, k)) THEN <<label \o IntToStr(Val(Get(l, k)))>> ELSE <<>>

\* clean_listing_data, lines 233-247: the title
table_title_parts(l) ==
    NumPart(l, "year", <<>>) \o TextPart(l, "manufacturer", <<>>)
        \o TextPart(l, "converter", <<>>) \o TextPart(l, "chassis_model", <<>>)
table_title(l) ==
    IF TruthyText(Get(l, "title")) THEN Get(l, "title")
    ELSE IF table_title_parts(l) # <<>> THEN Some(Join(table_title_parts(l), <<" ">>))
    ELSE Some(<<"Luxury", " ", "RV", " ", "Coach">>)

\* clean_listing_data, lines 250-268: the description
table_description_parts(l) ==
    NumPart(l, "year", <<"Year:", " ">>) \o TextPart(l, "manufacturer", <<"Manufacturer:", " ">>)
        \o TextPart(l, "converter", <<"Converter:", " ">>)
        \o TextPart(l, "chassis_model", <<"Chassis Model:", " ">>)
        \o NumPart(l, "slides", <<"Slides:", " ">>)
        \o (IF TruthyNum(Get(l, "price"))
            THEN <<<<"Price:", " ", "$">> \o FormatThousands(Val(Get(l, "price")))>>
            ELSE <<>>)
table_description(l) ==
    IF TruthyText(Get(l, "description")) THEN Get(l, "description")
    ELSE IF table_description_parts(l) # <<>>
         THEN Some(Join(table_description_parts(l), <<" ", "|", " ">>))
    ELSE Some(<<"Luxury RV coach for sale.">>)

\* clean_listing_data
clean_listing_data(l) ==
    ("title" :> table_title(l)) @@ ("description" :> table_description(l))
        @@ ("location" :> IF TruthyText(Get(l, "location")) THEN Get(l, "location")
                          ELSE Some(<<"United States">>))
        @@ l

\* if model and model.endswith('-'): model = model[:-1]
strip_dash(model) ==
    IF TruthyText(model) /\ Val(model)[Len(Val(model))] = "-"
    THEN Some(SubSeq(Val(model), 1, Len(Val(model)) - 1))
    ELSE model

\* ensure_manufacturer_exists / ensure_converter_exists: the table after the
\* call and the id returned
table_ensure(tbl, name) ==
    IF ~TruthyText(name) \/ Val(name) \in Range(tbl) THEN tbl ELSE Append(tbl, Val(name))
table_ensure_id(tbl, name) ==
    IF ~TruthyText(name) THEN None
    ELSE IF Val(name) \in Range(tbl)
         THEN Some(CHOOSE i \in 1..Len(tbl) : tbl[i] = Val(name))
         ELSE Some(Len(tbl) + 1)

\* ensure_chassis_type_exists, lines 135-184: a falsy model returns None,
\* else one trailing dash is removed and the name is looked up or inserted
ensure_chassis_type_exists(tbl, model) ==
    IF ~TruthyText(model) \/ Val(strip_dash(model)) \in Range(tbl) THEN tbl
    ELSE Append(tbl, Val(strip_dash(model)))
ensure_chassis_type_id(tbl, model) ==
    IF ~TruthyText(model) THEN None
    ELSE IF Val(strip_dash(model)) \in Range(tbl)
         THEN Some(CHOOSE i \in 1..Len(tbl) : tbl[i] = Val(strip_dash(model)))
         ELSE Some(Len(tbl) + 1)

\* INSERT INTO rv_listings (...) VALUES (...), lines 300-353
table_insert_row(l, manufacturer_id, converter_id, chassis_type_id) ==
    [title |-> Get(l, "title"),
     description |-> Get(l, "description"),
     year |-> Get(l, "year"),
     price |-> Get(l, "price"),
     manufacturer_id |-> manufacturer_id,
     converter_id |-> converter_id,
     chassis_type_id |-> chassis_type_id,
     slides |-> IF TruthyNum(Get(l, "slides")) THEN Get(l, "slides") ELSE Some(0),
     featured_image |-> Get(l, "featured_image"),
     location |-> Get(l, "location")]

\* lines 364-399: the featured image as primary, then the additional images
table_insert_images(imgs, rv_id, l) ==
    LET first == IF Truthy(Get(l, "featured_image"))
                 THEN insert_image([ok |-> TRUE, imgs |-> imgs], rv_id,
                                   Val(Get(l, "featured_image")), TRUE)
                 ELSE [ok |-> TRUE, imgs |-> imgs]
    IN  add_images_new(first, rv_id, Val(GetD(l, "additional_images", Some(<<>>))))

\* one iteration of the loop of lines 415-423.  The row is committed (line
\* 355) before the images are inserted.
import_table_listing_to_database(raw) ==
    /\ counts.imported + counts.updated + counts.error < MaxImports
    /\ Len(rv_listings) < MaxTableRows
    /\ listing' = clean_listing_data(raw)
    /\ existing_id' = 0
    /\ UNCHANGED submitted
    /\ IF tx_failed
       THEN /\ outcome' = "error"
            /\ counts' = count("error")
            /\ UNCHANGED <<tx_failed, dbvars>>
       ELSE LET l == clean_listing_data(raw)
                chassis_model == strip_dash(Get(l, "chassis_model"))
                rv_id == Len(rv_listings) + 1
                res == table_insert_images(rv_images, rv_id, l)
            IN  /\ manufacturers' = table_ensure(manufacturers, Get(l, "manufacturer"))
                /\ converters' = table_ensure(converters, Get(l, "converter"))
                /\ chassis_types' = ensure_chassis_type_exists(chassis_types, chassis_model)
                /\ rv_listings' = Append(rv_listings,
                      table_insert_row(l, table_ensure_id(manufacturers, Get(l, "manufacturer")),
                                       table_ensure_id(converters, Get(l, "converter")),
                                       ensure_chassis_type_id(chassis_types, chassis_model)))
                /\ rv_images' = IF res.ok THEN res.imgs ELSE rv_images
                /\ tx_failed' = ~res.ok
                /\ outcome' = IF res.ok THEN "created" ELSE "error"
                /\ counts' = IF res.ok THEN count("imported") ELSE count("error")
    /\ UNCHANGED <<concvars, extvars, opvars, scrvars>>

\* listings that differ in the chassis model and in the images
TableChassisListings ==
    {("title" :> Some(<<"Liberty", " ", "H3-45">>)) @@ c @@ i :
        c \in Opt("chassis_model", {<<"H3-45">>, <<"H3-45", "-">>, <<"H3-45", "-", "-">>,
                                    <<"H3-45", "-", "-", "-">>, <<"-">>, <<"-", "-">>}),
        i \in {EmptyObj,
               ("featured_image" :> Some("u1")) @@ ("additional_images" :> Some(<<"u2">>)),
               ("featured_image" :> Some("u1")) @@ ("additional_images" :> Some(<<"u1">>))}}

NextTableChassis ==
    (\E l \in TableChassisListings : import_table_listing_to_database(l)) \/ NewRun
SpecTableChassis == Init /\ [][NextTableChassis]_vars

\* listings with and without a title, differing in the fields a title is
\* made of
GivenTitle == <<"Custom", " ", "Coach">>
TableTitleListings ==
    {t @@ y @@ m @@ c @@ h @@ p :
        t \in OptNull("title", {<<>>, GivenTitle}),
        y \in Opt("year", {2009}),
        m \in Opt("manufacturer", {<<"Prevost">>}),
        c \in Opt("converter", {<<"Liberty">>}),
        h \in Opt("chassis_model", {<<"H3-45">>}),
        p \in Opt("price", {1250000})}

NextTableTitle ==
    (\E l \in TableTitleListings : import_table_listing_to_database(l)) \/ NewRun
SpecTableTitle == Init /\ [][NextTableTitle]_vars

\* ------------------------------------------------------------------------
\* scrape_prevost.py: parse_listing and the loop of scrape_listings
\* ------------------------------------------------------------------------
MaxNodes == 2       \* text nodes of one listing section
MaxParsed == 1      \* listings kept by one run of scrape_listings

\* re.search(r"([0-9]+)[\s-]*(?:foot|ft|\'|feet)", text, re.IGNORECASE): the
\* end of group 1 of a match that starts at i (0 when none starts there)
LengthEnd(s, i) ==
    LET e1 == RunEnd(s, i, Digits)
        e2 == RunEnd(s, e1 + 1, Whitespace \cup {"-"})
    IN  IF e1 >= i /\ (\/ MatchesAt(s, e2 + 1, <<"f", "o", "o", "t">>)
                       \/ MatchesAt(s, e2 + 1, <<"f", "t">>)
                       \/ MatchesAt(s, e2 + 1, <<"'">>)
                       \/ MatchesAt(s, e2 + 1, <<"f", "e", "e", "t">>))
        THEN e1 ELSE 0

\* scrape_prevost.extract_length
scrape_prevost_extract_length(s) ==
    LET starts == {i \in 1..Len(s) : LengthEnd(s, i) # 0}
    IN  IF s = <<>> \/ starts = {} THEN None
        ELSE Some(DigitsToNat(SubSeq(s, Least(starts), LengthEnd(s, Least(starts)))))

\* re.search(r"([0-9])[\s-]*slides?", text, re.IGNORECASE) matches at i
SlidesAt(s, i) ==
    /\ s[i] \in Digits
    /\ MatchesAt(s, RunEnd(s, i + 1, Whitespace \cup {"-"}) + 1, <<"s", "l", "i", "d", "e">>)

\* scrape_prevost.extract_slides
scrape_prevost_extract_slides(s) ==
    LET starts == {i \in 1..Len(s) : SlidesAt(s, i)}
    IN  IF s = <<>> \/ starts = {} THEN None ELSE Some(DigitVal(s[Least(starts)]))

\* line 115
scrape_prevost_models ==
    <<<<"H", "3", "-", "4", "5">>, <<"X", "3", "-", "4", "5">>, <<"X", "L", "I", "I">>, <<"X", "L", " ", "I", "I">>,
      <<"L", "e", " ", "M", "i", "r", "a", "g", "e">>, <<"L", "i", "b", "e", "r", "t", "y">>,
      <<"M", "a", "r", "a", "t", "h", "o", "n">>, <<"F", "e", "a", "t", "h", "e", "r", "l", "i", "t", "e">>>>

\* scrape_prevost.extract_model: the first model whose lowercased name is in
\* the lowercased text
scrape_prevost_extract_model(s) ==
    LET hits == {k \in 1..Len(scrape_prevost_models) :
                    Contains(Lower(s), Lower(scrape_prevost_models[k]))}
    IN  IF s = <<>> \/ hits = {} THEN None ELSE Some(scrape_prevost_models[Least(hits)])

\* re.search(r"(located|location)[:\s]*(.*?)[\.\(\)]", description,
\* re.IGNORECASE): group 2 stripped, "Unknown" when there is no match
LocationAt(s, i, w) ==
    /\ MatchesAt(s, i, w)
    /\ \E t \in (i + Len(w))..Len(s) : s[t] \in {".", "(", ")"}
parse_listing_location(s) ==
    LET words == <<<<"l", "o", "c", "a", "t", "e", "d">>, <<"l", "o", "c", "a", "t", "i", "o", "n">>>>
        starts == {i \in 1..Len(s) : \E k \in 1..2 : LocationAt(s, i, words[k])}
    IN  IF starts = {} THEN <<"U", "n", "k", "n", "o", "w", "n">>
        ELSE LET i == Least(starts)
                 k == Least({n \in 1..2 : LocationAt(s, i, words[n])})
                 e == RunEnd(s, i + Len(words[k]), Whitespace \cup {":"})
                 t == Least({n \in (e + 1)..Len(s) : s[n] \in {".", "(", ")"}})
             IN  Strip(SubSeq(s, e + 1, t - 1))

\* re.sub(r"\s+", " ", text)
RECURSIVE CollapseSpaces(_)
CollapseSpaces(s) ==
    IF s = <<>> THEN <<>>
    ELSE IF Head(s) \in Whitespace
         THEN <<" ">> \o CollapseSpaces(LStrip(s))
    ELSE <<Head(s)>> \o CollapseSpaces(Tail(s))

\* the text nodes of an element, each stripped, the empty ones dropped
RECURSIVE StrippedNodes(_)
StrippedNodes(nodes) ==
    IF nodes = <<>> THEN <<>>
    ELSE (IF Strip(Head(nodes)) = <<>> THEN <<>> ELSE <<Strip(Head(nodes))>>)
            \o StrippedNodes(Tail(nodes))

\* scrape_prevost.extract_description of a section with these text nodes
extract_description(nodes) ==
    Strip(CollapseSpaces(Join(StrippedNodes(nodes), <<" ">>)))

\* line 18
scrape_prevost_BASE_URL == <<"h", "t", "t", "p", "s", ":", "/", "/", "p", "r", "e", "v", "o", "s", "t", "-", "s", "t", "u", "f", "f", ".", "c", "o", "m">>

\* lines 186-201: the URLs of the section's images, icons and buttons left out
RECURSIVE section_images(_)
section_images(imgs) ==
    IF imgs = <<>> THEN <<>>
    ELSE LET image_url == urljoin(scrape_prevost_BASE_URL, Val(Head(imgs)))
         IN  (IF Head(imgs) = None
                 \/ Contains(Lower(image_url), <<"i", "c", "o", "n">>)
                 \/ Contains(Lower(image_url), <<"b", "u", "t", "t", "o", "n">>)
              THEN <<>> ELSE <<image_url>>) \o section_images(Tail(imgs))

\* a key of the listing that is set only when the value is truthy
SetIf(k, o, falsy) == IF o = None \/ o = Some(falsy) THEN EmptyObj ELSE k :> o

\* lines 234-245
parse_listing_title(l) ==
    Join((IF "year" \in DOMAIN l THEN <<IntToStr(Val(l["year"]))>> ELSE <<>>)
            \o (IF "model" \in DOMAIN l THEN <<Val(l["model"])>> ELSE <<>>)
            \o <<<<"P", "r", "e", "v", "o", "s", "t">>>>, <<" ">>)

\* scrape_prevost.parse_listing of a section whose text nodes are nodes, the
\* p-th of them being the price element, and whose img tags are imgs; an
\* extractor that raises ends the run
parse_listing_raises(nodes, p) ==
    \/ scrape_prevost_extract_price(Strip(nodes[p])).tag = "ValueError"
    \/ scrape_prevost_extract_mileage(extract_description(nodes)).tag = "ValueError"

parse_listing(nodes, p, imgs) ==
    LET price == scrape_prevost_extract_price(Strip(nodes[p]))
        description == extract_description(nodes)
        images == section_images(imgs)
        year == scrape_prevost_extract_year(description)
        mileage == scrape_prevost_extract_mileage(description)
        fields ==
            ("manufacturerId" :> Some(1)) @@ ("typeId" :> Some(1)) @@ ("sellerId" :> Some(1))
            @@ ("make" :> Some(<<"P", "r", "e", "v", "o", "s", "t">>)) @@ ("fuelType" :> Some(<<"D", "i", "e", "s", "e", "l">>))
            @@ (IF price.tag = "int" /\ price.val # 0 THEN "price" :> Some(price.val) ELSE EmptyObj)
            @@ (IF images # <<>> THEN "featuredImage" :> Some(Head(images)) ELSE EmptyObj)
            @@ (IF Len(images) > 1 THEN "additionalImages" :> Some(Tail(images)) ELSE EmptyObj)
            @@ (IF description = <<>> THEN EmptyObj
                ELSE ("description" :> Some(description))
                     @@ (IF year.tag = "int" /\ year.val # 0 THEN "year" :> Some(year.val) ELSE EmptyObj)
                     @@ (IF mileage.tag = "int" /\ mileage.val # 0
                         THEN "mileage" :> Some(mileage.val) ELSE EmptyObj)
                     @@ SetIf("length", scrape_prevost_extract_length(description), 0)
                     @@ SetIf("slides", scrape_prevost_extract_slides(description), 0)
                     @@ SetIf("model", scrape_prevost_extract_model(description), <<>>)
                     @@ ("location" :> Some(parse_listing_location(description))))
    IN  fields
        @@ ("title" :> Some(parse_listing_title(fields)))
        @@ ("isFeatured" :> Some("price" \in DOMAIN fields /\ Val(fields["price"]) > 500000))

\* one section of the loop of scrape_listings (lines 275-281): the listing is
\* kept when it has a title and a price
scrape_prevost_section(nodes, p, imgs) ==
    /\ Len(listings) < MaxParsed
    /\ ~parse_listing_raises(nodes, p)
    /\ listing' = parse_listing(nodes, p, imgs)
    /\ listings' = IF "title" \in DOMAIN listing' /\ "price" \in DOMAIN listing'
                   THEN Append(listings, listing') ELSE listings
    /\ UNCHANGED <<dbvars, tx_failed, counts, existing_id, outcome, submitted,
                   concvars, extvars, opvars, seen>>

\* the sections of the page: the text of the price element, the text nodes
\* in front of it and behind it, and the img tags
PriceNodeTexts == {<<>>, <<"$", "9", "5", "0", "K">>, <<"$", "1", ".", "2", "M">>, <<"C", "a", "l", "l">>}
NodeTexts ==
    {<<>>, <<" ", "2", "0", "0", "9", " ">>, <<"H", "3", "-", "4", "5">>, <<"2", "0", "0", "9", " ", "L", "i", "b", "e", "r", "t", "y", " ", "4", "5", " ", "f", "t", " ", "2", " ", "s", "l", "i", "d", "e", "s">>,
     <<"L", "o", "c", "a", "t", "e", "d", ":", " ", "M", "i", "a", "m", "i", " ", "(", "F", "L", ")">>, <<"1", "2", ",", "0", "0", "0", " ", "m", "i", "l", "e", "s">>}
SectionsOf(prices) ==
    {sec \in {<<before \o <<price>> \o after, Len(before) + 1>> :
                 price \in prices,
                 before \in UNION {[1..n -> NodeTexts] : n \in 0..(MaxNodes - 1)},
                 after \in UNION {[1..n -> NodeTexts] : n \in 0..(MaxNodes - 1)}} :
        Len(sec[1]) <= MaxNodes}
Sections == SectionsOf(PriceNodeTexts)
SectionImgs ==
    {<<>>, <<Some(<<"a", ".", "j", "p", "g">>)>>, <<None, Some(<<"i", "c", "o", "n", ".", "g", "i", "f">>), Some(<<"a", ".", "j", "p", "g">>), Some(<<"b", ".", "j", "p", "g">>)>>}

NextParse ==
    \E sec \in Sections, imgs \in SectionImgs :
        scrape_prevost_section(sec[1], sec[2], imgs)
SpecParse == Init /\ [][NextParse]_vars

\* ------------------------------------------------------------------------
\* scripts/prevost_scraper.py: the loop of scrape_listings
\* ------------------------------------------------------------------------
\* the extractors whose text is that of scrape_prevost.py
scripts_prevost_scraper_extract_year(s) == scrape_prevost_extract_year(s)
scripts_prevost_scraper_extract_mileage(s) == scrape_prevost_extract_mileage(s)
scripts_prevost_scraper_extract_slides(s) == scrape_prevost_extract_slides(s)
scripts_prevost_scraper_extract_model(s) == scrape_prevost_extract_model(s)

\* scripts/prevost_scraper.extract_length: ([0-9]+)[\s-]*(?:foot|ft|\')
scripts_prevost_scraper_extract_length(s) ==
    LET ends(i) == LET e1 == RunEnd(s, i, Digits)
                       e2 == RunEnd(s, e1 + 1, Whitespace \cup {"-"})
                   IN  IF e1 >= i /\ (\/ MatchesAt(s, e2 + 1, <<"f", "o", "o", "t">>)
                                      \/ MatchesAt(s, e2 + 1, <<"f", "t">>)
                                      \/ MatchesAt(s, e2 + 1, <<"'">>))
                       THEN e1 ELSE 0
        starts == {i \in 1..Len(s) : ends(i) # 0}
    IN  IF s = <<>> \/ starts = {} THEN None
        ELSE Some(DigitsToNat(SubSeq(s, Least(starts), ends(Least(starts)))))

\* s.replace(w, ""), w not empty
RECURSIVE Replace(_, _)
Replace(s, w) ==
    LET occ == {i \in 1..(Len(s) - Len(w) + 1) : SubSeq(s, i, i + Len(w) - 1) = w}
    IN  IF occ = {} THEN s
        ELSE SubSeq(s, 1, Least(occ) - 1)
                \o Replace(SubSeq(s, Least(occ) + Len(w), Len(s)), w)

\* line 205
generic_description(price) ==
    <<"P", "r", "e", "v", "o", "s", "t", " ", "L", "u", "x", "u", "r", "y", " ", "C", "o", "a", "c", "h", " ", "-", " ", "L", "i", "s", "t", "e", "d", " ", "a", "t", " ", "$">> \o FormatThousands(price) \o <<".", " ", "H", "i", "g", "h", "-", "e", "n", "d", " ", "l", "u", "x", "u", "r", "y", " ", "m", "o", "t", "o", "r", "c", "o", "a", "c", "h", " ", "b", "u", "i", "l", "t", " ", "o", "n", " ", "t", "h", "e", " ", "r", "e", "n", "o", "w", "n", "e", "d", " ", "P", "r", "e", "v", "o", "s", "t", " ", "c", "h", "a", "s", "s", "i", "s", ".", " ", "F", "e", "a", "t", "u", "r", "e", "s", " ", "p", "r", "e", "m", "i", "u", "m", " ", "a", "m", "e", "n", "i", "t", "i", "e", "s", ",", " ", "s", "p", "a", "c", "i", "o", "u", "s", " ", "l", "i", "v", "i", "n", "g", " ", "a", "r", "e", "a", "s", ",", " ", "a", "n", "d", " ", "t", "o", "p", "-", "o", "f", "-", "t", "h", "e", "-", "l", "i", "n", "e", " ", "f", "i", "n", "i", "s", "h", "e", "s", ".", " ", "I", "d", "e", "a", "l", " ", "f", "o", "r", " ", "l", "u", "x", "u", "r", "y", " ", "t", "r", "a", "v", "e", "l", " ", "a", "n", "d", " ", "f", "u", "l", "l", "-", "t", "i", "m", "e", " ", "R", "V", " ", "l", "i", "v", "i", "n", "g", ".">>

\* lines 187-198: the longest of the paragraphs in front of the price element
\* that are longer than 20 characters and name Prevost, the first of them
\* when several are as long
surrounding_paragraph(paragraphs) ==
    LET good == {k \in 1..Len(paragraphs) :
                    Len(paragraphs[k]) > 20 /\ Contains(paragraphs[k], <<"P", "r", "e", "v", "o", "s", "t">>)}
    IN  IF good = {} THEN None
        ELSE Some(paragraphs[Least({k \in good :
                        \A m \in good : Len(paragraphs[m]) <= Len(paragraphs[k])})])

\* lines 166-209: the description of the listing
scripts_description(price_text, price, parent_text, prev_sibling, paragraphs) ==
    LET d1 == IF prev_sibling # None /\ Len(Val(prev_sibling)) > 20
              THEN Val(prev_sibling) ELSE parent_text
        d2 == IF Len(d1) < 20 /\ surrounding_paragraph(paragraphs) # None
              THEN Val(surrounding_paragraph(paragraphs)) ELSE d1
        d3 == IF Len(d2) < 5 THEN generic_description(price) ELSE d2
    IN  IF Contains(d3, price_text) THEN Strip(Replace(d3, price_text)) ELSE d3

\* a key of the listing that is left out when the value is None
NotNone(k, o) == IF o = None THEN EmptyObj ELSE k :> o

\* lines 231-280: the listing made of a description
scripts_listing(description_text, price, image_url) ==
    LET year == scripts_prevost_scraper_extract_year(description_text)
        mileage == scripts_prevost_scraper_extract_mileage(description_text)
        model == scripts_prevost_scraper_extract_model(description_text)
        title == Join((IF year.tag = "int" /\ year.val # 0 THEN <<IntToStr(year.val)>> ELSE <<>>)
                        \o (IF model # None THEN <<Val(model)>> ELSE <<>>)
                        \o <<<<"P", "r", "e", "v", "o", "s", "t">>>>, <<" ">>)
    IN  ("title" :> Some(title)) @@ ("description" :> Some(description_text))
        @@ ("price" :> Some(price))
        @@ (IF year.tag = "int" THEN "year" :> Some(year.val) ELSE EmptyObj)
        @@ ("make" :> Some(<<"P", "r", "e", "v", "o", "s", "t">>))
        @@ NotNone("model", model)
        @@ NotNone("length", scripts_prevost_scraper_extract_length(description_text))
        @@ (IF mileage.tag = "int" THEN "mileage" :> Some(mileage.val) ELSE EmptyObj)
        @@ ("manufacturerId" :> Some(1)) @@ ("typeId" :> Some(1))
        @@ ("location" :> Some(parse_listing_location(description_text)))
        @@ NotNone("featuredImage", image_url)
        @@ NotNone("slides", scripts_prevost_scraper_extract_slides(description_text))
        @@ ("fuelType" :> Some(<<"D", "i", "e", "s", "e", "l">>))
        @@ ("isFeatured" :> Some(image_url # None /\ Val(image_url) # <<>> /\ price > 500000))
        @@ ("sellerId" :> Some(1))

\* one price element of the loop of scrape_listings (lines 155-282): nodes
\* are the text nodes of its parent, the p-th being the price element; elem
\* tells whether the node in front of it is a p, div or span element;
\* paragraphs are the p elements in front of it, the nearest first; src is
\* the src of the image found near it
scripts_prevost_scraper_price_element(nodes, p, elem, paragraphs, src) ==
    LET price_text == Strip(nodes[p])
        price == scripts_prevost_scraper_extract_price(price_text)
        parent_text == Flatten(StrippedNodes(nodes))
        prev_sibling == IF p > 1 /\ elem THEN Some(Strip(nodes[p - 1])) ELSE None
        description_text ==
            scripts_description(price_text, price.val, parent_text, prev_sibling, paragraphs)
        image_url == IF src = None THEN None ELSE Some(urljoin(scrape_prevost_BASE_URL, Val(src)))
    IN  /\ Len(listings) < MaxParsed
        /\ price.tag # "ValueError"
        /\ IF price.tag = "None" \/ price.val = 0
           THEN UNCHANGED <<listing, listings>>
           ELSE /\ scripts_prevost_scraper_extract_mileage(description_text).tag # "ValueError"
                /\ listing' = scripts_listing(description_text, price.val, image_url)
                /\ listings' = Append(listings, listing')
        /\ UNCHANGED <<dbvars, tx_failed, counts, existing_id, outcome, submitted,
                       concvars, extvars, opvars, seen>>

Paragraphs ==
    {<<>>, <<<<"2", "0", "0", "9", " ", "P", "r", "e", "v", "o", "s", "t", " ", "H", "3", "-", "4", "5", " ", "c", "o", "a", "c", "h">>>>,
     <<<<"A", " ", "c", "o", "a", "c", "h", " ", "o", "f", " ", "P", "r", "e", "v", "o", "s", "t", " ", "m", "a", "k", "e", ".">>, <<"2", "0", "0", "9", " ", "P", "r", "e", "v", "o", "s", "t", " ", "H", "3", "-", "4", "5", " ", "c", "o", "a", "c", "h">>>>}

ScriptsPriceTexts ==
    PriceNodeTexts \cup {<<"$", "1">>, <<"$", " ", "2", ",", "5", "0", "0">>,
                        <<"P", "l", "e", "a", "s", "e", " ", "c", "a", "l", "l", " ", "f", "o", "r", " ", "p", "r", "i", "c", "i", "n", "g">>}

NextScripts ==
    \E sec \in SectionsOf(ScriptsPriceTexts), elem \in BOOLEAN, paragraphs \in Paragraphs,
       src \in {None, Some(<<"a", ".", "j", "p", "g">>), Some(<<"b", ".", "j", "p", "g">>)} :
        scripts_prevost_scraper_price_element(sec[1], sec[2], elem, paragraphs, src)
SpecScripts == Init /\ [][NextScripts]_vars

\* ------------------------------------------------------------------------
\* improved_rv_scraper.py: the loop of scrape_listings
\* ------------------------------------------------------------------------
MaxListed == 1      \* listings returned by one run of scrape_listings

\* re.sub(r"\b" + w + r"\b", r, s, flags=re.IGNORECASE), from position i on
RECURSIVE SubWord(_, _, _, _)
SubWord(s, w, r, i) ==
    LET occ == {k \in i..Len(s) : WordAt(s, k, w)}
    IN  IF occ = {} THEN SubSeq(s, i, Len(s))
        ELSE SubSeq(s, i, Least(occ) - 1) \o r \o SubWord(s, w, r, Least(occ) + Len(w))

\* " ".join(s.split())
JoinSplit(s) == Strip(CollapseSpaces(s))

\* the index of the last character of the run of characters other than
\* whitespace that starts at i
RECURSIVE WordEnd(_, _)
WordEnd(s, i) == IF i <= Len(s) /\ s[i] \notin Whitespace THEN WordEnd(s, i + 1) ELSE i - 1

\* s.split()
RECURSIVE SplitWords(_)
SplitWords(s) ==
    LET t == LStrip(s)
        e == WordEnd(t, 1)
    IN  IF t = <<>> THEN <<>>
        ELSE <<SubSeq(t, 1, e)>> \o SplitWords(SubSeq(t, e + 1, Len(t)))

\* re.search(r"\b" + a + r"\s+" + b + r"\b", s, re.IGNORECASE)
HasTwoWords(s, a, b) ==
    \E i \in 1..Len(s) :
        /\ MatchesAt(s, i, a) /\ Boundary(s, i)
        /\ LET j == RunEnd(s, i + Len(a), Whitespace)
           IN  j >= i + Len(a) /\ MatchesAt(s, j + 1, b) /\ Boundary(s, j + 1 + Len(b))

\* re.search(r"\b" + re.escape(w) + r"\b", s, re.IGNORECASE)
HasWord(s, w) == \E i \in 1..Len(s) : WordAt(s, i, w)

\* the first name of a list that is a word of s (0: none)
FirstWordOf(s, names) ==
    LET hits == {k \in 1..Len(names) : HasWord(s, names[k])}
    IN  IF hits = {} THEN 0 ELSE Least(hits)

\* lines 89-99
improved_chassis_models ==
    <<<<"H", "3", "-", "4", "5">>, <<"X", "3", "-", "4", "5">>, <<"X", "L", "I", "I">>, <<"X", "L", " ", "I", "I">>,
      <<"X", "L", "-", "I", "I">>, <<"H", "3">>, <<"X", "3">>, <<"H", "3", "4", "5">>, <<"X", "3", "4", "5">>,
      <<"L", "e", " ", "M", "i", "r", "a", "g", "e">>, <<"L", "e", "M", "i", "r", "a", "g", "e">>>>
improved_converter_models ==
    <<<<"E", "l", "e", "g", "a", "n", "t", " ", "L", "a", "d", "y">>, <<"E", "x", "e", "c", "u", "t", "i", "v", "e">>,
      <<"I", "m", "p", "e", "r", "i", "a", "l">>, <<"M", "a", "r", "q", "u", "i", "s">>,
      <<"C", "l", "a", "s", "s", "i", "c">>, <<"S", "i", "g", "n", "a", "t", "u", "r", "e">>,
      <<"L", "e", "g", "a", "c", "y">>, <<"R", "o", "y", "a", "l", "e">>>>

\* improved_rv_scraper.extract_model
improved_rv_scraper_extract_model(s) ==
    LET flat(t) == Remove(t, {"-", " "})
        exact == FirstWordOf(s, improved_chassis_models)
        loose == {k \in 1..Len(improved_chassis_models) :
                     Contains(flat(s), flat(improved_chassis_models[k]))}
        conv == FirstWordOf(s, improved_converter_models)
    IN  IF s = <<>> THEN None
        ELSE IF exact # 0 THEN Some(improved_chassis_models[exact])
        ELSE IF loose # {} THEN Some(improved_chassis_models[Least(loose)])
        ELSE IF conv # 0 THEN Some(improved_converter_models[conv])
        ELSE None

\* lines 126-131
improved_converters ==
    <<<<"M", "a", "r", "a", "t", "h", "o", "n">>, <<"L", "i", "b", "e", "r", "t", "y">>, <<"F", "e", "a", "t", "h", "e", "r", "l", "i", "t", "e">>,
      <<"M", "i", "l", "l", "e", "n", "n", "i", "u", "m">>, <<"E", "m", "e", "r", "a", "l", "d">>, <<"V", "o", "g", "u", "e">>, <<"N", "e", "w", "e", "l", "l">>,
      <<"P", "r", "e", "v", "o", "s", "t">>, <<"E", "p", "i", "c">>, <<"N", "a", "s", "h", "v", "i", "l", "l", "e">>,
      <<"C", "o", "u", "n", "t", "r", "y", " ", "C", "o", "a", "c", "h">>, <<"P", "a", "r", "l", "i", "a", "m", "e", "n", "t">>,
      <<"E", "x", "e", "c", "u", "t", "i", "v", "e">>, <<"A", "n", "g", "o", "l", "a">>,
      <<"A", "m", "e", "r", "i", "c", "a", "n", " ", "H", "e", "r", "i", "t", "a", "g", "e">>,
      <<"F", "o", "r", "e", "t", "r", "a", "v", "e", "l">>, <<"N", "e", "w", "m", "a", "r">>, <<"E", "n", "t", "e", "g", "r", "a">>,
      <<"T", "i", "f", "f", "i", "n">>, <<"M", "o", "n", "a", "c", "o">>>>

\* improved_rv_scraper.extract_converter
improved_rv_scraper_extract_converter(s) ==
    LET exact == FirstWordOf(s, improved_converters)
        loose == {k \in 1..Len(improved_converters) :
                     Contains(Lower(s), Lower(improved_converters[k]))}
    IN  IF s = <<>> THEN None
        ELSE IF exact # 0 THEN Some(improved_converters[exact])
        ELSE IF loose # {} THEN Some(improved_converters[Least(loose)])
        ELSE None

\* lines 388-390: os.path.basename(link).split("_")[0], None when the name
\* has no underscore
url_title_part(url_filename) ==
    LET us == {i \in 1..Len(url_filename) : url_filename[i] = "_"}
    IN  IF us = {} THEN None ELSE Some(SubSeq(url_filename, 1, Least(us) - 1))

\* lines 405-422: the model of the URL
url_model(url_filename) ==
    LET model == improved_rv_scraper_extract_model(Val(url_title_part(url_filename)))
        starts == {i \in 1..Len(url_filename) :
                      /\ Slice(url_filename, i, i + 6) = <<"P", "r", "e", "v", "o", "s", "t">>
                      /\ i + 7 <= Len(url_filename) /\ url_filename[i + 7] \in {"H", "X"}}
        i == Least(starts)
        us == {k \in (i + 7)..Len(url_filename) : url_filename[k] = "_"}
        chassis_code == SubSeq(url_filename, i + 7,
                               IF us = {} THEN Len(url_filename) ELSE Least(us) - 1)
    IN  IF model # None THEN model
        ELSE IF starts = {} THEN None
        ELSE IF chassis_code = <<"H">> THEN Some(<<"H", "3", "-", "4", "5">>)
        ELSE IF chassis_code = <<"X">> THEN Some(<<"X", "3", "-", "4", "5">>)
        ELSE IF chassis_code \in {<<"X", "L", "I", "I">>, <<"X", "L">>} THEN Some(<<"X", "L", "I", "I">>)
        ELSE Some(chassis_code)

\* lines 470-477
title_start(full_title, year, converter, model) ==
    IF full_title # <<>> THEN JoinSplit(SubWord(full_title, <<"P", "r", "e", "v", "o", "s", "t">>, <<>>, 1))
    ELSE Strip(IntToStr(year) \o <<" ">> \o (IF converter = None THEN <<>> ELSE Val(converter))
                 \o <<" ">> \o (IF model = None THEN <<>> ELSE Val(model)))

\* lines 484-494
title_elegant_lady(clean_title, full_title, description) ==
    LET parts == SplitWords(clean_title)
    IN  IF HasTwoWords(full_title \o <<" ">> \o description, <<"E", "l", "e", "g", "a", "n", "t">>, <<"L", "a", "d", "y">>)
           /\ ~Contains(clean_title, <<"E", "l", "e", "g", "a", "n", "t", " ", "L", "a", "d", "y">>)
        THEN IF Len(parts) > 1
             THEN Join(SubSeq(parts, 1, 2) \o <<<<"E", "l", "e", "g", "a", "n", "t", " ", "L", "a", "d", "y">>>>
                          \o SubSeq(parts, 3, Len(parts)), <<" ">>)
             ELSE clean_title \o <<" ", "E", "l", "e", "g", "a", "n", "t", " ", "L", "a", "d", "y">>
        ELSE clean_title

\* lines 497-508
title_chassis_model(model, description) ==
    LET names == <<<<"H", "3", "-", "4", "5">>, <<"X", "3", "-", "4", "5">>, <<"X", "L", "I", "I">>, <<"H", "3">>, <<"X", "3">>>>
    IN  IF model # None /\ model # Some(<<>>) THEN model
        ELSE IF FirstWordOf(description, names) = 0 THEN None
        ELSE Some(names[FirstWordOf(description, names)])

\* lines 510-513
title_add_chassis(clean_title, chassis_model) ==
    IF chassis_model # None /\ ~Contains(clean_title, Val(chassis_model))
    THEN Strip(clean_title \o <<" ">> \o Val(chassis_model)) ELSE clean_title

\* line 520: re.sub(r"(\w+)(Double|Single|Triple|Quad)(\s+)?Slide",
\* r"\1 \2 Slide", s), from position i on
slide_words == <<<<"D", "o", "u", "b", "l", "e">>, <<"S", "i", "n", "g", "l", "e">>, <<"T", "r", "i", "p", "l", "e">>, <<"Q", "u", "a", "d">>>>
SlideWordAt(s, k) ==
    LET hits == {n \in 1..Len(slide_words) :
                    /\ Slice(s, k, k + Len(slide_words[n]) - 1) = slide_words[n]
                    /\ LET j == RunEnd(s, k + Len(slide_words[n]), Whitespace) + 1
                       IN  Slice(s, j, j + 4) = <<"S", "l", "i", "d", "e">>}
    IN  IF hits = {} THEN 0 ELSE Least(hits)
RECURSIVE RunStart(_, _, _)
RunStart(s, k, from) ==
    IF k >= from /\ IsWordAt(s, k) THEN RunStart(s, k - 1, from) ELSE k + 1
RECURSIVE slide_spacing_fix(_, _)
slide_spacing_fix(s, i) ==
    LET ks == {k \in (i + 1)..Len(s) : IsWordAt(s, k - 1) /\ SlideWordAt(s, k) # 0}
        start == Least({RunStart(s, k - 1, i) : k \in ks})
        k == CHOOSE x \in ks : /\ RunStart(s, x - 1, i) = start
                               /\ \A y \in ks : RunStart(s, y - 1, i) = start => y <= x
        word == slide_words[SlideWordAt(s, k)]
        e == RunEnd(s, k + Len(word), Whitespace) + 5
    IN  IF ks = {} THEN SubSeq(s, i, Len(s))
        ELSE SubSeq(s, i, k - 1) \o <<" ">> \o word \o <<" ", "S", "l", "i", "d", "e">> \o slide_spacing_fix(s, e + 1)

\* line 529: re.search(r"\b(\d+)[- ]slide", s, re.IGNORECASE), group 1
slides_count(s) ==
    LET starts == {i \in 1..Len(s) :
                      /\ s[i] \in Digits /\ Boundary(s, i)
                      /\ LET e == RunEnd(s, i, Digits)
                         IN  /\ e + 1 <= Len(s) /\ s[e + 1] \in {"-", " "}
                             /\ MatchesAt(s, e + 2, <<"s", "l", "i", "d", "e">>)}
    IN  IF starts = {} THEN None
        ELSE Some(SubSeq(s, Least(starts), RunEnd(s, Least(starts), Digits)))

\* lines 523-542
title_slides(clean_title, full_title, description) ==
    LET no_slide == ~Contains(Lower(clean_title), <<"s", "l", "i", "d", "e">>)
        n == slides_count(description \o <<" ">> \o full_title)
    IN  IF HasTwoWords(full_title, <<"D", "o", "u", "b", "l", "e">>, <<"S", "l", "i", "d", "e">>) /\ no_slide
        THEN clean_title \o <<" ", "D", "o", "u", "b", "l", "e", " ", "S", "l", "i", "d", "e">>
        ELSE IF n = None \/ ~no_slide THEN clean_title
        ELSE IF n = Some(<<"1">>) THEN clean_title \o <<" ", "S", "i", "n", "g", "l", "e", " ", "S", "l", "i", "d", "e">>
        ELSE IF n = Some(<<"2">>) THEN clean_title \o <<" ", "D", "o", "u", "b", "l", "e", " ", "S", "l", "i", "d", "e">>
        ELSE IF n = Some(<<"3">>) THEN clean_title \o <<" ", "T", "r", "i", "p", "l", "e", " ", "S", "l", "i", "d", "e">>
        ELSE IF n = Some(<<"4">>) THEN clean_title \o <<" ", "Q", "u", "a", "d", " ", "S", "l", "i", "d", "e">>
        ELSE clean_title \o <<" ">> \o Val(n) \o <<"-", "S", "l", "i", "d", "e">>

\* lines 545-550
title_year_front(clean_title, year) ==
    LET y == IntToStr(year)
        e == RunEnd(clean_title, Len(y) + 1, Whitespace)
    IN  IF year = 0 THEN clean_title
        ELSE y \o <<" ">>
               \o (IF Slice(clean_title, 1, Len(y)) = y /\ e > Len(y)
                   THEN SubSeq(clean_title, e + 1, Len(clean_title)) ELSE clean_title)

\* line 557: re.sub(fr"({chassis})(.+?)\1", r"\1\2", s, flags=re.IGNORECASE),
\* from position i on: of two mentions the second is removed
RECURSIVE remove_duplicate(_, _, _)
remove_duplicate(s, chassis, i) ==
    LET n == Len(chassis)
        firsts == {k \in i..Len(s) :
                      /\ MatchesAt(s, k, chassis)
                      /\ \E j \in (k + n + 1)..Len(s) : MatchesAt(s, j, chassis)}
        k == Least(firsts)
        j == Least({x \in (k + n + 1)..Len(s) : MatchesAt(s, x, chassis)})
    IN  IF firsts = {} THEN SubSeq(s, i, Len(s))
        ELSE SubSeq(s, i, j - 1) \o remove_duplicate(s, chassis, j + n)

\* line 563: re.sub(r"([a-zA-Z])(\d)", r"\1 \2", s)
space_before_digits(s) ==
    Flatten([i \in 1..Len(s) |->
                IF /\ s[i] \in Range(UpperLetters) \cup Range(LowerLetters)
                   /\ i < Len(s) /\ s[i + 1] \in Digits
                THEN <<s[i], " ">> ELSE <<s[i]>>])

\* lines 571-572: re.sub(letter + r"\s+3-45", letter + "3-45", s), from
\* position i on
RECURSIVE fix_letter_3_45(_, _, _)
fix_letter_3_45(s, letter, i) ==
    LET occ == {k \in i..Len(s) :
                   /\ s[k] = letter
                   /\ RunEnd(s, k + 1, Whitespace) > k
                   /\ LET j == RunEnd(s, k + 1, Whitespace) + 1
                      IN  j + 3 <= Len(s) /\ SubSeq(s, j, j + 3) = <<"3", "-", "4", "5">>}
        k == Least(occ)
    IN  IF occ = {} THEN SubSeq(s, i, Len(s))
        ELSE SubSeq(s, i, k) \o <<"3", "-", "4", "5">>
                \o fix_letter_3_45(s, letter, RunEnd(s, k + 1, Whitespace) + 5)

\* line 575: re.sub(r"XLII(\w+)", r"XLII \1", s), from position i on
RECURSIVE fix_xlii(_, _)
fix_xlii(s, i) ==
    LET occ == {k \in i..Len(s) :
                   k + 3 <= Len(s) /\ SubSeq(s, k, k + 3) = <<"X", "L", "I", "I">> /\ IsWordAt(s, k + 4)}
        k == Least(occ)
        e == RunEnd(s, k + 4, WordChars)
    IN  IF occ = {} THEN SubSeq(s, i, Len(s))
        ELSE SubSeq(s, i, k + 3) \o <<" ">> \o SubSeq(s, k + 4, e) \o fix_xlii(s, e + 1)

\* lines 552-575: the final cleanup
title_cleanup(t0) ==
    LET t1 == remove_duplicate(t0, <<"H", "3", "-", "4", "5">>, 1)
        t2 == remove_duplicate(t1, <<"X", "3", "-", "4", "5">>, 1)
        t3 == remove_duplicate(t2, <<"X", "L", "I", "I">>, 1)
        t4 == space_before_digits(JoinSplit(t3))
        t5 == SubWord(t4, <<"H", "3", "-", "4", "5">>, <<"H", "3", "-", "4", "5">>, 1)
        t6 == SubWord(t5, <<"X", "3", "-", "4", "5">>, <<"X", "3", "-", "4", "5">>, 1)
        t7 == SubWord(t6, <<"X", "L", "I", "I">>, <<"X", "L", "I", "I">>, 1)
        t8 == fix_letter_3_45(t7, "H", 1)
        t9 == fix_letter_3_45(t8, "X", 1)
    IN  fix_xlii(t9, 1)

\* lines 466-576: the title of the listing
improved_title(full_title, description, year, converter, model) ==
    LET t1 == title_start(full_title, year, converter, model)
        t2 == title_elegant_lady(t1, full_title, description)
        t3 == title_add_chassis(t2, title_chassis_model(model, description))
        t4 == slide_spacing_fix(t3, 1)
        t5 == title_slides(t4, full_title, description)
    IN  title_cleanup(title_year_front(t5, year))

\* lines 432-462: the featured image is the first image that was downloaded,
\* or else the preview image of the link; the others are additional images
RECURSIVE Downloaded(_)
Downloaded(downloads) ==
    IF downloads = <<>> THEN <<>>
    ELSE (IF Head(downloads) = None THEN <<>> ELSE <<Val(Head(downloads))>>)
            \o Downloaded(Tail(downloads))
main_image_path(downloads, preview) ==
    IF Downloaded(downloads) # <<>> THEN Some(Head(Downloaded(downloads))) ELSE preview
additional_images(downloads) ==
    LET paths == Downloaded(downloads)
    IN  [i \in 1..(Len(paths) - 1) |-> [imageUrl |-> paths[i + 1], isPrimary |-> FALSE]]

\* lines 388-400: the link is skipped
improved_skips(url_filename) ==
    \/ url_title_part(url_filename) = None
    \/ scrape_listings_year(Val(url_title_part(url_filename))).tag # "int"

\* lines 580-596
improved_listing(url_filename, detailed_data, downloads, preview) ==
    LET title_part == Val(url_title_part(url_filename))
        year == scrape_listings_year(title_part).val
        full_title == IF Get(detailed_data, "full_title") = None THEN <<>>
                      ELSE Val(detailed_data["full_title"])
        description == IF Get(detailed_data, "description") = None THEN <<>>
                       ELSE Val(detailed_data["description"])
    IN  ("title" :> Some(improved_title(full_title, description, year,
                             improved_rv_scraper_extract_converter(title_part),
                             url_model(url_filename))))
        @@ ("description" :> GetD(detailed_data, "description",
                                  Some(<<"L", "u", "x", "u", "r", "y", " ">> \o IntToStr(year) \o <<" ", "P", "r", "e", "v", "o", "s", "t", " ", "c", "o", "a", "c", "h", ".">>)))
        @@ NotNone("price", Get(detailed_data, "price"))
        @@ ("year" :> Some(year))
        @@ ("manufacturerId" :> Some(1)) @@ ("typeId" :> Some(1))
        @@ ("location" :> Some(<<"U", "n", "k", "n", "o", "w", "n">>))
        @@ NotNone("featuredImage", main_image_path(downloads, preview))
        @@ ("fuelType" :> Some(<<"D", "i", "e", "s", "e", "l">>))
        @@ ("isFeatured" :> Some(TRUE)) @@ ("sellerId" :> Some(1))
        @@ ("additionalImages" :> Some(additional_images(downloads)))

\* one link of the loop of scrape_listings (lines 384-601): detailed_data is
\* what fetch_detailed_listing returns for it, downloads what download_image
\* returns for each of its images and preview what it returns for the image
\* of the link
improved_rv_scraper_link(url_filename, detailed_data, downloads, preview) ==
    /\ Len(listings) < MaxListed
    /\ IF improved_skips(url_filename)
       THEN UNCHANGED <<listing, listings>>
       ELSE /\ listing' = improved_listing(url_filename, detailed_data, downloads, preview)
            /\ listings' = Append(listings, listing')
    /\ UNCHANGED <<dbvars, tx_failed, counts, existing_id, outcome, submitted,
                   concvars, extvars, opvars, seen>>

\* the links of the page and what their detail pages hold
UrlFilenames ==
    {<<"2", "0", "0", "9", "P", "r", "e", "v", "o", "s", "t", "H", "_", "a", ".", "h", "t", "m", "l">>,
     <<"2", "0", "0", "9", "P", "r", "e", "v", "o", "s", "t", "L", "i", "b", "e", "r", "t", "y", "_", "a", ".", "h", "t", "m", "l">>,
     <<"2", "0", "0", "9", "P", "r", "e", "v", "o", "s", "t", "X", "L", "I", "I", "_", "a", ".", "h", "t", "m", "l">>,
     <<"P", "r", "e", "v", "o", "s", "t", "2", "0", "0", "9", ".", "h", "t", "m", "l">>,
     <<"P", "r", "e", "v", "o", "s", "t", "H", "_", "a", ".", "h", "t", "m", "l">>}
FullTitles ==
    {<<"2", "0", "0", "9", " ", "P", "r", "e", "v", "o", "s", "t", " ", "L", "i", "b", "e", "r", "t", "y", " ", "H", "3", "-", "4", "5">>,
     <<"2", "0", "0", "9", " ", "P", "r", "e", "v", "o", "s", "t", " ", "L", "i", "b", "e", "r", "t", "y", " ", "H", "3", "4", "5">>,
     <<"2", "0", "0", "9", " ", "P", "r", "e", "v", "o", "s", "t", " ", "H", "3", "-", "4", "5", " ", "L", "i", "b", "e", "r", "t", "y", " ", "H", "3", "-", "4", "5", " ", "C", "o", "a", "c", "h", " ", "H", "3", "-", "4", "5">>,
     <<"2", "0", "0", "9", " ", "P", "r", "e", "v", "o", "s", "t", " ", "L", "i", "b", "e", "r", "t", "y", " ", "h", "3", "-", "4", "5", " ", "D", "o", "u", "b", "l", "e", " ", "S", "l", "i", "d", "e">>,
     <<"2", "0", "0", "9", " ", "P", "r", "e", "v", "o", "s", "t", " ", "M", "a", "r", "a", "t", "h", "o", "n", " ", "X", "L", "I", "I", "N", "o", "n", " ", "S", "l", "i", "d", "e">>}
Descriptions ==
    {<<"A", " ", "c", "o", "a", "c", "h", " ", "o", "n", " ", "a", "n", " ", "H", "3", "-", "4", "5", " ", "c", "h", "a", "s", "s", "i", "s", " ", "h", "e", "r", "e", ".", " ">>,
     <<"E", "l", "e", "g", "a", "n", "t", " ", "L", "a", "d", "y", " ", "c", "o", "a", "c", "h", " ", "w", "i", "t", "h", " ", "2", " ", "s", "l", "i", "d", "e", "s", ".", " ">>}
DetailedData ==
    {t @@ d @@ p : t \in Opt("full_title", FullTitles), d \in Opt("description", Descriptions),
                   p \in Opt("price", {500000})}
ImageDownloads ==
    {<<>>, <<Some(<<"/", "i", "m", "a", "g", "e", "s", "/", "r", "v", "_", "l", "i", "s", "t", "i", "n", "g", "s", "/", "r", "v", "_", "0", ".", "j", "p", "g">>)>>,
     <<None, Some(<<"/", "i", "m", "a", "g", "e", "s", "/", "r", "v", "_", "l", "i", "s", "t", "i", "n", "g", "s", "/", "r", "v", "_", "0", ".", "j", "p", "g">>), Some(<<"/", "i", "m", "a", "g", "e", "s", "/", "r", "v", "_", "l", "i", "s", "t", "i", "n", "g", "s", "/", "r", "v", "_", "1", ".", "j", "p", "g">>)>>}
PreviewDownloads == {None, Some(<<"/", "i", "m", "a", "g", "e", "s", "/", "r", "v", "_", "l", "i", "s", "t", "i", "n", "g", "s", "/", "r", "v", "_", "m", "a", "i", "n", ".", "j", "p", "g">>)}

NextImproved ==
    \E url_filename \in UrlFilenames, detailed_data \in DetailedData,
       downloads \in ImageDownloads, preview \in PreviewDownloads :
        improved_rv_scraper_link(url_filename, detailed_data, downloads, preview)
SpecImproved == Init /\ [][NextImproved]_vars

\* ------------------------------------------------------------------------
\* table_scraper.py: the rows of scrape_prevost_tables
\* ------------------------------------------------------------------------
MaxTabled == 1      \* listings returned by one run of scrape_prevost_tables

\* table_scraper.extract_price: re.search(r"\$[\d,]+", text), None when int()
\* raises
table_scraper_extract_price(s) ==
    LET starts == {i \in 1..Len(s) : s[i] = "$" /\ i < Len(s) /\ s[i + 1] \in Digits \cup {","}}
        body == Remove(SubSeq(s, Least(starts) + 1,
                              RunEnd(s, Least(starts) + 1, Digits \cup {","})), {","})
    IN  IF starts = {} \/ body = <<>> THEN None ELSE Some(DigitsToNat(body))

\* table_scraper.extract_field_from_text: re.search(field_name +
\* r":([^:]+?)(?:$|(?=\w+:))", text, re.IGNORECASE), group 1 stripped; the
\* end of group 1 of a match that starts at i (0 when none starts there)
FieldEnd(s, field_name, i) ==
    LET g == i + Len(field_name) + 1
        colon == {k \in g..Len(s) : s[k] = ":"}
        last == IF colon = {} THEN Len(s) ELSE Least(colon) - 1
        ends == {e \in g..last :
                    \/ e = Len(s)
                    \/ /\ IsWordAt(s, e + 1)
                       /\ LET r == RunEnd(s, e + 1, WordChars)
                          IN  r < Len(s) /\ s[r + 1] = ":"}
    IN  IF MatchesAt(s, i, field_name \o <<":">>) /\ ends # {} THEN Least(ends) ELSE 0
extract_field_from_text(s, field_name) ==
    LET starts == {i \in 1..Len(s) : FieldEnd(s, field_name, i) # 0}
        i == Least(starts)
    IN  IF starts = {} THEN None
        ELSE Some(Strip(SubSeq(s, i + Len(field_name) + 1, FieldEnd(s, field_name, i))))

\* table_scraper.extract_model and extract_converter
table_scraper_extract_model(s) == extract_field_from_text(s, <<"M", "o", "d", "e", "l">>)
table_scraper_extract_converter(s) == extract_field_from_text(s, <<"C", "o", "n", "v", "e", "r", "t", "e", "r">>)

\* table_scraper.extract_slides
table_scraper_extract_slides(s) ==
    LET slides == extract_field_from_text(s, <<"S", "l", "i", "d", "e", "s">>)
    IN  IF slides # None /\ Val(slides) # <<>> /\ Range(Val(slides)) \subseteq Digits
        THEN DigitsToNat(Val(slides)) ELSE 0

\* lines 225-234: the text of the link of the title cell, or else the text
\* of the cell
table_row_title(title_tag, cell_text) ==
    IF title_tag # None /\ Val(title_tag).text # <<>> THEN Val(title_tag).text ELSE cell_text

\* lines 276-289
table_listing(title_tag, cell_text, details_text, info_text, download, detail_info) ==
    LET title == table_row_title(title_tag, cell_text)
        detail_url == IF title_tag = None THEN None ELSE Val(title_tag).href
        year == table_scraper_extract_year(details_text)
    IN  ("title" :> Some(title))
        @@ ("description" :> GetD(IF detail_url = None THEN EmptyObj ELSE detail_info,
                                  "description", Some(title)))
        @@ ("price" :> table_scraper_extract_price(details_text))
        @@ ("year" :> IF year.tag = "int" THEN Some(year.val) ELSE None)
        @@ ("manufacturer" :> Some(<<"P", "r", "e", "v", "o", "s", "t">>))
        @@ ("converter" :> table_scraper_extract_converter(info_text))
        @@ ("chassis_model" :> table_scraper_extract_model(details_text))
        @@ ("slides" :> Some(table_scraper_extract_slides(info_text)))
        @@ ("featured_image" :> IF download = None THEN Some(<<"/", "i", "m", "a", "g", "e", "s", "/", "d", "e", "f", "a", "u", "l", "t", "_", "r", "v", ".", "j", "p", "g">>)
                                ELSE download)
        @@ ("additional_images" :> GetD(IF detail_url = None THEN EmptyObj ELSE detail_info,
                                        "additional_images", Some(<<>>)))
        @@ ("detail_url" :> detail_url)
        @@ ("location" :> Some(<<"U", "n", "i", "t", "e", "d", " ", "S", "t", "a", "t", "e", "s">>))

\* one row of the loops of scrape_prevost_tables (lines 201-296) that has
\* three cells: title_tag is the link of the first cell, cell_text the text
\* of that cell, download what download_image returns for its image and
\* detail_info what process_detail_page returns; a row without a price is
\* skipped
table_scraper_row(title_tag, cell_text, details_text, info_text, download, detail_info) ==
    /\ Len(listings) < MaxTabled
    /\ IF table_scraper_extract_price(details_text) \in {None, Some(0)}
       THEN UNCHANGED <<listing, listings>>
       ELSE /\ listing' = table_listing(title_tag, cell_text, details_text, info_text,
                                        download, detail_info)
            /\ listings' = Append(listings, listing')
    /\ UNCHANGED <<dbvars, tx_failed, counts, existing_id, outcome, submitted,
                   concvars, extvars, opvars, seen>>

\* the cells of the rows: the link text is part of the text of its cell
TitleCells ==
    {<<None, <<>>>>, <<None, <<"C", "o", "a", "c", "h">>>>,
     <<Some([text |-> <<>>, href |-> Some(<<"a", "d", ".", "h", "t", "m", "l">>)]), <<>>>>,
     <<Some([text |-> <<>>, href |-> None]), <<"C", "o", "a", "c", "h">>>>,
     <<Some([text |-> <<"2", "0", "0", "9", " ", "L", "i", "b", "e", "r", "t", "y">>, href |-> Some(<<"a", "d", ".", "h", "t", "m", "l">>)]),
       <<"2", "0", "0", "9", " ", "L", "i", "b", "e", "r", "t", "y">>>>}
DetailsTexts ==
    {<<>>, <<"Y", "e", "a", "r", ":", "2", "0", "0", "9", "M", "o", "d", "e", "l", ":", "H", "3", "-", "4", "5", "P", "r", "i", "c", "e", ":", "$", "5", "0", "0", ",", "0", "0", "0">>,
     <<"P", "r", "i", "c", "e", ":", "$", "1">>, <<"$", ",">>, <<"Y", "e", "a", "r", ":", "1", "9", "9", "9", " ", "P", "r", "i", "c", "e", ":", " ", "$", "2", "5", "0", ",", "0", "0", "0">>}
InfoTexts ==
    {<<>>, <<"C", "o", "n", "v", "e", "r", "t", "e", "r", ":", "L", "i", "b", "e", "r", "t", "y", "S", "l", "i", "d", "e", "s", ":", "2">>, <<"S", "l", "i", "d", "e", "s", ":", "t", "w", "o">>,
     <<"C", "o", "n", "v", "e", "r", "t", "e", "r", ":", " ", "M", "a", "r", "a", "t", "h", "o", "n", " ", "C", "o", "a", "c", "h">>}
TableDownloads == {None, Some(<<"/", "i", "m", "a", "g", "e", "s", "/", "r", "v", "_", "l", "i", "s", "t", "i", "n", "g", "s", "/", "r", "v", "_", "0", ".", "j", "p", "g">>)}
DetailInfos ==
    {EmptyObj,
     ("description" :> Some(<<>>)) @@ ("additional_images" :> Some(<<>>)),
     ("description" :> Some(<<"T", "h", "i", "s", " ", "2", "0", "0", "9", " ", "c", "o", "a", "c", "h", " ", "h", "a", "s", " ", "b", "e", "e", "n", " ", "k", "e", "p", "t", " ", "i", "n", " ", "a", " ", "h", "e", "a", "t", "e", "d", " ", "g", "a", "r", "a", "g", "e", " ", "a", "n", "d", " ", "i", "t", " ", "i", "s", " ", "r", "e", "a", "d", "y", " ", "f", "o", "r", " ", "t", "h", "e", " ", "r", "o", "a", "d", " ", "w", "i", "t", "h", " ", "n", "e", "w", " ", "t", "i", "r", "e", "s", " ", "a", "n", "d", " ", "b", "a", "t", "t", "e", "r", "i", "e", "s", ".">>))
        @@ ("additional_images" :> Some(<<<<"/", "i", "m", "a", "g", "e", "s", "/", "r", "v", "_", "l", "i", "s", "t", "i", "n", "g", "s", "/", "r", "v", "_", "1", ".", "j", "p", "g">>>>))}

NextTable ==
    \E cell \in TitleCells, details_text \in DetailsTexts, info_text \in InfoTexts,
       download \in TableDownloads, detail_info \in DetailInfos :
        table_scraper_row(cell[1], cell[2], details_text, info_text, download, detail_info)
SpecTable == Init /\ [][NextTable]_vars

\* ------------------------------------------------------------------------
\* enhanced_scraper.py and improved_scraper.py: the rows of
\* scrape_prevost_listings
\* ------------------------------------------------------------------------
MaxRowed == 1       \* listings returned by one run of scrape_prevost_listings

\* line 30 of both files
KNOWN_CONVERTERS ==
    <<<<"M", "a", "r", "a", "t", "h", "o", "n">>, <<"L", "i", "b", "e", "r", "t", "y">>, <<"M", "i", "l", "l", "e", "n", "n", "i", "u", "m">>, <<"F", "e", "a", "t", "h", "e", "r", "l", "i", "t", "e">>, <<"V", "a", "n", "t", "a", "r", "e">>,
      <<"E", "m", "e", "r", "a", "l", "d">>, <<"N", "e", "w", "e", "l", "l">>, <<"P", "r", "e", "v", "o", "s", "t">>, <<"C", "o", "u", "n", "t", "r", "y", " ", "C", "o", "a", "c", "h">>, <<"A", "n", "g", "o", "l", "a">>,
      <<"A", "m", "e", "r", "i", "c", "a", "n", " ", "H", "e", "r", "i", "t", "a", "g", "e">>, <<"F", "o", "r", "e", "t", "r", "a", "v", "e", "l">>, <<"N", "e", "w", "m", "a", "r">>, <<"E", "n", "t", "e", "g", "r", "a">>,
      <<"T", "i", "f", "f", "i", "n">>, <<"M", "o", "n", "a", "c", "o">>, <<"P", "a", "r", "l", "i", "a", "m", "e", "n", "t">>, <<"E", "x", "e", "c", "u", "t", "i", "v", "e">>>>

\* detect_converter: the first name of the list that re.search(r'\b' +
\* re.escape(converter) + r'\b', text, re.IGNORECASE) finds
detect_converter(s) == first_model(s, KNOWN_CONVERTERS)

\* re.search(r"\b(\d{1,3}(?:,\d{3})*)\s*miles\b", text, re.IGNORECASE): the
\* end of group 1 of a match that starts at i (0 when none starts there)
RECURSIVE ThousandsEnd(_, _)
ThousandsEnd(s, e) ==
    IF /\ e + 4 <= Len(s) /\ s[e + 1] = ","
       /\ \A k \in 2..4 : s[e + k] \in Digits
    THEN ThousandsEnd(s, e + 4) ELSE e
MilesEnd(s, i) ==
    LET e1 == RunEnd(s, i, Digits)
        e2 == ThousandsEnd(s, e1)
        e3 == RunEnd(s, e2 + 1, Whitespace)
    IN  IF /\ Boundary(s, i) /\ e1 >= i /\ e1 - i + 1 <= 3
           /\ MatchesAt(s, e3 + 1, <<"m", "i", "l", "e", "s">>) /\ Boundary(s, e3 + 6)
        THEN e2 ELSE 0

\* extract_mileage
enhanced_scraper_extract_mileage(s) ==
    LET starts == {i \in 1..Len(s) : MilesEnd(s, i) # 0}
    IN  IF starts = {} THEN None
        ELSE Some(DigitsToNat(Remove(SubSeq(s, Least(starts), MilesEnd(s, Least(starts))), {","})))

\* re.search(r"\b(\d{1,2})(?:\.\d+)?\s*(?:foot|feet|ft)\.?\b", text,
\* re.IGNORECASE): the end of group 1 of a match that starts at i
FeetEnd(s, i) ==
    LET e1 == RunEnd(s, i, Digits)
        e2 == FracEnd(s, e1 + 1)
        e3 == RunEnd(s, e2 + 1, Whitespace)
        units == {u \in {<<"f", "o", "o", "t">>, <<"f", "e", "e", "t">>, <<"f", "t">>} :
                    /\ MatchesAt(s, e3 + 1, u)
                    /\ \/ Boundary(s, e3 + 1 + Len(u))
                       \/ /\ e3 + 1 + Len(u) <= Len(s) /\ s[e3 + 1 + Len(u)] = "."
                          /\ Boundary(s, e3 + 2 + Len(u))}
    IN  IF Boundary(s, i) /\ e1 >= i /\ e1 - i + 1 <= 2 /\ units # {} THEN e1 ELSE 0

\* extract_length
enhanced_scraper_extract_length(s) ==
    LET starts == {i \in 1..Len(s) : FeetEnd(s, i) # 0}
    IN  IF starts = {} THEN None
        ELSE Some(DigitsToNat(SubSeq(s, Least(starts), FeetEnd(s, Least(starts)))))

\* re.search(r"\b(\d+)\s*slide", text, re.IGNORECASE): the end of group 1 of
\* a match that starts at i
SlideEnd(s, i) ==
    LET e1 == RunEnd(s, i, Digits)
    IN  IF /\ Boundary(s, i) /\ e1 >= i
           /\ MatchesAt(s, RunEnd(s, e1 + 1, Whitespace) + 1, <<"s", "l", "i", "d", "e">>)
        THEN e1 ELSE 0

\* extract_slides: None when the text names no slide count
enhanced_scraper_extract_slides(s) ==
    LET starts == {i \in 1..Len(s) : SlideEnd(s, i) # 0}
    IN  IF starts = {} THEN None
        ELSE Some(DigitsToNat(SubSeq(s, Least(starts), SlideEnd(s, Least(starts)))))

\* the result of one extractor as an optional value
Optional(r) == IF r.tag = "int" THEN Some(r.val) ELSE None

\* the description before the title
TextOr_description_first(a, b) == IF TruthyText(b) THEN b ELSE a

\* a number a, or b when a is falsy (None, 0)
NumOr(a, b) == IF TruthyNum(a) THEN a ELSE b
\* if not converter: converter = detect_converter(full_description)
TextOr(a, b) == IF TruthyText(a) THEN a ELSE b

\* enhanced_scraper.scrape_prevost_listings, lines 177-202: the row is
\* skipped for a price that is None or 0
enhanced_skips(tags, price_text, download) ==
    \/ ~tags
    \/ Optional(enhanced_scraper_extract_price(Strip(price_text))) \in {None, Some(0)}
    \/ download = None

\* lines 186-251: the listing of one row.  page is the detail page: the
\* href of the row's link, what fetch_listing_detail returned for it and the
\* paths of the additional images that were saved
enhanced_listing(title, price_text, download, page) ==
    LET full_description == Val(GetD(page.details, "full_description", Some(<<>>)))
    IN  ("title" :> Some(title))
        @@ ("description" :> Some(full_description))
        @@ ("price" :> Optional(enhanced_scraper_extract_price(Strip(price_text))))
        @@ ("year" :> NumOr(Optional(enhanced_scraper_extract_year(title)),
                             Optional(enhanced_scraper_extract_year(full_description))))
        @@ ("manufacturer" :> Some(<<"P", "r", "e", "v", "o", "s", "t">>))
        @@ ("converter" :> TextOr(detect_converter(title), detect_converter(full_description)))
        @@ ("chassis_model" :> TextOr(enhanced_scraper_detect_chassis_model(title),
                                      enhanced_scraper_detect_chassis_model(full_description)))
        @@ ("mileage" :> enhanced_scraper_extract_mileage(full_description))
        @@ ("length" :> enhanced_scraper_extract_length(full_description))
        @@ ("slides" :> enhanced_scraper_extract_slides(full_description))
        @@ ("featured_image" :> download)
        @@ ("additional_images" :> Some(page.saved))
        @@ ("detail_url" :> page.href)

\* one div.row of the page (lines 171-257)
enhanced_scraper_row(tags, title, price_text, download, page) ==
    /\ Len(listings) < MaxRowed
    /\ IF enhanced_skips(tags, price_text, download)
       THEN UNCHANGED <<listing, listings>>
       ELSE /\ listing' = enhanced_listing(title, price_text, download, page)
            /\ listings' = Append(listings, listing')
    /\ UNCHANGED <<dbvars, tx_failed, counts, existing_id, outcome, submitted,
                   concvars, extvars, opvars, seen>>

\* improved_scraper.scrape_prevost_listings, lines 270-290: the row is
\* skipped without a numeric price or without the primary image
improved_scraper_skips(tags, price_text, download) ==
    \/ ~tags
    \/ ~(\E i \in 1..(Len(Strip(price_text)) - 1) :
            Strip(price_text)[i] = "$" /\ Strip(price_text)[i + 1] \in Digits)
    \/ download = None

\* lines 279-339: the listing of one div.row; the description is consulted
\* when it is not empty
improved_scraper_listing(title, price_text, download, page) ==
    LET description == Val(GetD(page.details, "description", Some(<<>>)))
        from(v) == IF description = <<>> THEN None ELSE v
    IN  ("title" :> Some(title))
        @@ ("description" :> Some(IF description = <<>> THEN title ELSE description))
        @@ ("price" :> Optional(enhanced_scraper_extract_price(Strip(price_text))))
        @@ ("year" :> NumOr(Optional(enhanced_scraper_extract_year(title)),
                             from(Optional(enhanced_scraper_extract_year(description)))))
        @@ ("manufacturer" :> Some(<<"P", "r", "e", "v", "o", "s", "t">>))
        @@ ("converter" :> TextOr(detect_converter(title), from(detect_converter(description))))
        @@ ("chassis_model" :> TextOr(improved_scraper_detect_chassis_model(title),
                                      from(improved_scraper_detect_chassis_model(description))))
        @@ ("mileage" :> from(enhanced_scraper_extract_mileage(description)))
        @@ ("length" :> from(enhanced_scraper_extract_length(description)))
        @@ ("slides" :> from(enhanced_scraper_extract_slides(description)))
        @@ ("featured_image" :> download)
        @@ ("additional_images" :> GetD(page.details, "additional_images", Some(<<>>)))
        @@ ("detail_url" :> page.href)
        @@ ("location" :> Some(<<"U", "n", "i", "t", "e", "d", " ", "S", "t", "a", "t", "e", "s">>))

\* one div.row of the page (lines 264-345)
improved_scraper_row(tags, title, price_text, download, page) ==
    /\ Len(listings) < MaxRowed
    /\ IF improved_scraper_skips(tags, price_text, download)
       THEN UNCHANGED <<listing, listings>>
       ELSE /\ listing' = improved_scraper_listing(title, price_text, download, page)
            /\ listings' = Append(listings, listing')
    /\ UNCHANGED <<dbvars, tx_failed, counts, existing_id, outcome, submitted,
                   concvars, extvars, opvars, seen>>

\* the h5 titles, the "Price: " texts and the detail pages of the rows
RowTitles ==
    {<<"C", "o", "a", "c", "h">>, <<"2", "0", "0", "9", " ", "L", "i", "b", "e", "r", "t", "y", " ", "H", "3", "-", "4", "5">>, <<"2", "0", "0", "5", " ", "M", "a", "r", "a", "t", "h", "o", "n", " ", "X", "L", "I", "I">>, <<"P", "r", "e", "v", "o", "s", "t", " ", "X", "3">>,
     <<"1", "9", "9", "9", " ", "V", "a", "n", "t", "a", "r", "e">>, <<"F", "e", "a", "t", "h", "e", "r", "l", "i", "t", "e", " ", "H", "3">>}
RowDescriptions ==
    {<<>>, <<"L", "i", "b", "e", "r", "t", "y", " ", "c", "o", "a", "c", "h">>, <<"1", "9", "9", "9", " ", "M", "a", "r", "a", "t", "h", "o", "n", " ", "X", "3", "-", "4", "5", " ", "2", " ", "s", "l", "i", "d", "e", "s", " ", "4", "5", " ", "f", "t", " ", "1", "2", ",", "0", "0", "0", " ", "m", "i", "l", "e", "s">>,
     <<"n", "o", " ", "s", "l", "i", "d", "e", " ", "o", "u", "t", "s">>, <<"H", "3", "-", "4", "5", " ", "2", "0", "0", "1", " ", "F", "e", "a", "t", "h", "e", "r", "l", "i", "t", "e", " ", "4", "0", ".", "5", " ", "f", "e", "e", "t", ".", " ", "9", "0", "0", " ", "m", "i", "l", "e", "s">>, <<"2", " ", "s", "l", "i", "d", "e", "o", "u", "t", "s", ",", " ", "X", "L">>}
RowPriceTexts == {<<"P", "r", "i", "c", "e", ":", " ", "$", "5", "0", "0", ",", "0", "0", "0">>, <<"P", "r", "i", "c", "e", ":", " ", "C", "a", "l", "l">>}
RowDownloads == {None, Some(<<"/", "i", "m", "a", "g", "e", "s", "/", "r", "v", "_", "l", "i", "s", "t", "i", "n", "g", "s", "/", "r", "v", "_", "0", ".", "j", "p", "g">>)}
SavedImages == {<<>>, <<<<"/", "i", "m", "a", "g", "e", "s", "/", "r", "v", "_", "l", "i", "s", "t", "i", "n", "g", "s", "/", "r", "v", "_", "1", ".", "j", "p", "g">>>>}
EnhancedPages ==
    {[href |-> None, details |-> EmptyObj, saved |-> <<>>]}
    \cup {[href |-> Some(<<"a", "d", ".", "h", "t", "m", "l">>),
           details |-> ("full_description" :> Some(d))
                       @@ ("additional_image_urls" :> Some(saved)),
           saved |-> saved] : d \in RowDescriptions, saved \in SavedImages}
ImprovedPages ==
    {[href |-> Some(<<"a", "d", ".", "h", "t", "m", "l">>), details |-> EmptyObj, saved |-> <<>>]}
    \cup {[href |-> Some(<<"a", "d", ".", "h", "t", "m", "l">>),
           details |-> ("description" :> Some(d)) @@ ("additional_images" :> Some(saved)),
           saved |-> saved] : d \in RowDescriptions, saved \in SavedImages}

NextRows ==
    \E tags \in BOOLEAN, title \in RowTitles, price_text \in RowPriceTexts,
       download \in RowDownloads :
        \/ \E page \in EnhancedPages : enhanced_scraper_row(tags, title, price_text, download, page)
        \/ \E page \in ImprovedPages : improved_scraper_row(tags, title, price_text, download, page)
SpecRows == Init /\ [][NextRows]_vars

\* json.load of the file the scraper saved: a string item of additional_images
\* is an image that is not a dict
load_listing(l) ==
    [k \in DOMAIN l |->
        IF k = "additional_images"
        THEN Some([i \in 1..Len(Val(l[k])) |-> StrImage(Val(l[k])[i])])
        ELSE l[k]]

\* import_enhanced_listings.py run on the listings the scraper has saved
import_scraped_listing ==
    \E i \in 1..Len(listings) : import_enhanced_listing_to_database(load_listing(listings[i]))

\* the rows are scraped, the saved listings are imported
NextSlides == NextRows \/ import_scraped_listing \/ NewRun
SpecSlides == Init /\ [][NextSlides]_vars

\* ------------------------------------------------------------------------
\* The sources of a field: the labels of a row of prevost_scraper.py, the
\* title and the description of enhanced_scraper.py and improved_scraper.py
\* ------------------------------------------------------------------------
\* the converter prevost_scraper.scrape takes from a row's text (lines 129-138)
Call_prevost_scraper_scrape_converter ==
    /\ fn' = "prevost_scraper.scrape converter"
    /\ ret' = scrape_converter(text)
    /\ UNCHANGED <<text, dbvars, runvars, concvars, scrvars, opvars>>

\* row texts with and without the labels
SourceTexts ==
    {<<"M", "a", "r", "a", "t", "h", "o", "n", " ", "X", "L", "I", "I">>, <<"X", "3", "-", "4", "5", " ", "M", "o", "d", "e", "l", ":", " ", "H", "3", " ", "L", "i", "b", "e", "r", "t", "y">>, <<"M", "o", "d", "e", "l", ":", "X", "L", " ", "H", "3", "-", "4", "5", " ", "C", "o", "n", "v", "e", "r", "t", "e", "r", ":", " ", "R", "o", "y", "a", "l", "e", " ", "M", "a", "r", "a", "t", "h", "o", "n">>,
     <<"L", "i", "b", "e", "r", "t", "y", " ", "C", "o", "n", "v", "e", "r", "t", "e", "r", ":", " ", "M", "a", "r", "a", "t", "h", "o", "n", " ", "C", "o", "a", "c", "h", " ", "$", "1">>, <<"C", "o", "n", "v", "e", "r", "t", "e", "r", ":", " ", "$", "1", " ", "L", "i", "b", "e", "r", "t", "y">>}

InitSources ==
    /\ InitDb /\ InitRun /\ InitConc /\ InitScr /\ InitOps
    /\ text \in SourceTexts
    /\ fn = "none"
    /\ ret = None

NextSources ==
    \/ Call_prevost_scraper_scrape_model
    \/ Call_prevost_scraper_scrape_converter
    \/ NextRows
SpecSources == InitSources /\ [][NextSources]_vars

\* ------------------------------------------------------------------------
\* The images of a listing: scrape_prevost.parse_listing and
\* improved_rv_scraper.scrape_listings
\* ------------------------------------------------------------------------
MaxImgTags == 3     \* img tags of one listing section

\* the src attributes of the img tags of a section, in page order: the same
\* picture may be shown more than once
ImgSrcs == {None, Some(<<"a", ".", "j", "p", "g">>), Some(<<"b", ".", "j", "p", "g">>), Some(<<"i", "c", "o", "n", ".", "g", "i", "f">>)}
ImgTagLists == UNION {[1..n -> ImgSrcs] : n \in 0..MaxImgTags}

\* sections with a price, and one link with its downloads
NextSectionImages ==
    \/ \E sec \in SectionsOf({<<"$", "9", "5", "0", "K">>}), imgs \in ImgTagLists :
          scrape_prevost_section(sec[1], sec[2], imgs)
    \/ \E downloads \in ImageDownloads, preview \in PreviewDownloads :
          improved_rv_scraper_link(<<"2", "0", "0", "9", "P", "r", "e", "v", "o", "s", "t", "H", "_", "a", ".", "h", "t", "m", "l">>, EmptyObj, downloads, preview)
SpecSectionImages == Init /\ [][NextSectionImages]_vars

\* ------------------------------------------------------------------------
\* improved_rv_scraper.download_image: the retry loop (lines 171-232).  One
\* step is one pass of the loop: the request, the file and what follows.
\* ------------------------------------------------------------------------
MaxRetries == 4     \* the greatest max_retries of a call

\* what one pass of the loop meets: a file that is saved and not empty, an
\* empty file, a requests.exceptions.RequestException, another exception
AttemptOutcomes == {"saved", "empty", "network_error", "exception"}

\* lines 184-198: the extension of the file, from the Content-Type or else
\* from the URL
image_extension(content_type, url_extension) ==
    IF Contains(content_type, <<"i", "m", "a", "g", "e", "/", "j", "p", "e", "g">>) \/ Contains(content_type, <<"i", "m", "a", "g", "e", "/", "j", "p", "g">>) THEN <<".", "j", "p", "g">>
    ELSE IF Contains(content_type, <<"i", "m", "a", "g", "e", "/", "p", "n", "g">>) THEN <<".", "p", "n", "g">>
    ELSE IF Contains(content_type, <<"i", "m", "a", "g", "e", "/", "w", "e", "b", "p">>) THEN <<".", "w", "e", "b", "p">>
    ELSE IF Contains(content_type, <<"i", "m", "a", "g", "e", "/", "g", "i", "f">>) THEN <<".", "g", "i", "f">>
    ELSE IF Lower(url_extension) \in {<<".", "j", "p", "g">>, <<".", "j", "p", "e", "g">>, <<".", "p", "n", "g">>, <<".", "w", "e", "b", "p">>, <<".", "g", "i", "f">>}
         THEN Lower(url_extension)
    ELSE <<".", "j", "p", "g">>

\* lines 201 and 213: the web path of the saved file, the uuid4 part left
\* as the word uuid
web_path(prefix, extension) ==
    <<"/", "i", "m", "a", "g", "e", "s", "/", "r", "v", "_", "l", "i", "s", "t", "i", "n", "g", "s", "/">> \o prefix \o <<"_", "u", "u", "i", "d">> \o extension

\* a retry without the test of the attempt number
retry_once_more(d) ==
    IF d.attempt < d.max_retries
    THEN [d EXCEPT !.attempt = d.attempt + 1]
    ELSE [d EXCEPT !.state = "returned", !.result = None]

\* lines 216-219 and 223-229: the next pass when attempt < max_retries - 1,
\* else return None
retry(d) ==
    IF d.attempt < d.max_retries - 1
    THEN [d EXCEPT !.attempt = d.attempt + 1]
    ELSE [d EXCEPT !.state = "returned", !.result = None]

\* download_image(image_url, prefix, max_retries) is called: with
\* max_retries = 0 the loop has no pass and line 232 returns None
download_image_call(max_retries) ==
    /\ image_download.state # "running"
    /\ image_download' = [state |-> IF max_retries = 0 THEN "returned" ELSE "running",
                    max_retries |-> max_retries, attempt |-> 0, requests |-> 0,
                    outcomes |-> <<>>, result |-> None]
    /\ UNCHANGED <<dbvars, runvars, concvars, extvars, scrvars, image_fix, reset_run, scrape_run,
                   listings_json, api>>

\* one pass of the loop: requests.get is its first statement
download_image_attempt(met, prefix, content_type, url_extension) ==
    /\ image_download.state = "running"
    /\ LET d == [image_download EXCEPT !.requests = image_download.requests + 1,
                                    !.outcomes = Append(image_download.outcomes, met)]
       IN  image_download' =
             CASE met = "saved" ->
                    [d EXCEPT !.state = "returned",
                              !.result = Some(web_path(prefix, image_extension(content_type, url_extension)))]
               [] met \in {"empty", "network_error"} -> retry(d)
               [] met = "exception" -> [d EXCEPT !.state = "returned", !.result = None]
    /\ UNCHANGED <<dbvars, runvars, concvars, extvars, scrvars, image_fix, reset_run, scrape_run,
                   listings_json, api>>

\* the prefixes, the Content-Type headers and the extensions of the URLs
Prefixes == {<<"r", "v">>, <<"r", "v", "_", "2", "0", "0", "9", "_", "p", "r", "e", "v", "o", "s", "t", "_", "0">>}
ContentTypes == {<<"i", "m", "a", "g", "e", "/", "j", "p", "e", "g">>, <<"i", "m", "a", "g", "e", "/", "p", "n", "g">>, <<"t", "e", "x", "t", "/", "h", "t", "m", "l">>, <<>>}
UrlExtensions == {<<".", "P", "N", "G">>, <<".", "p", "h", "p">>, <<>>}

AttemptStep ==
    \E met \in AttemptOutcomes, prefix \in Prefixes, content_type \in ContentTypes,
       url_extension \in UrlExtensions :
        download_image_attempt(met, prefix, content_type, url_extension)
NextDownload ==
    \/ \E max_retries \in 0..MaxRetries : download_image_call(max_retries)
    \/ AttemptStep
\* a pass of the loop ends: the request has a timeout of 15 seconds
SpecDownload == Init /\ [][NextDownload]_vars /\ WF_vars(AttemptStep)

\* ------------------------------------------------------------------------
\* fix_rv_images.py: main() runs fix_image_references and then
\* align_primary_images.  Every update is committed on a connection of its
\* own; the rows carry the columns the script reads.
\* ------------------------------------------------------------------------
MaxFixListings == 2     \* rows of rv_listings when the script starts
MaxFixImages == 2       \* rows of rv_images when the script starts

\* s starts with p
StartsWith(s, p) == Len(p) <= Len(s) /\ SubSeq(s, 1, Len(p)) = p

\* LIKE 'http%' (lines 77 and 85), featured_image.startswith('http') (line 170)
is_external(url) == StartsWith(url, <<"h", "t", "t", "p">>)

\* lines 193-195: the local images with 'main' in their path, or else all
default_images(local_images) ==
    LET main == SelectSeq(local_images, LAMBDA img : Contains(img, <<"m", "a", "i", "n">>))
    IN  IF main = <<>> THEN local_images ELSE main

\* lines 73-79 and 81-87: the ids of the rows with an external URL, in the
\* order of the ids
IdsWhere(n, P(_)) == SelectSeq([i \in 1..n |-> i], P)
featured_external(listings_) ==
    IdsWhere(Len(listings_), LAMBDA i : listings_[i].featured_image # None
                                          /\ is_external(Val(listings_[i].featured_image)))
rv_images_external(images) ==
    IdsWhere(Len(images), LAMBDA i : is_external(images[i].image_url))

\* lines 118-140: UPDATE rv_images SET image_url = %s WHERE id = %s; the
\* update fails on the unique key (rv_id, image_url) and is rolled back
update_rv_image(r, image_id, new_image_url) ==
    IF \E j \in 1..Len(r.images) :
          /\ j # image_id
          /\ r.images[j].rv_id = r.images[image_id].rv_id
          /\ r.images[j].image_url = new_image_url
    THEN [r EXCEPT !.ok = FALSE]
    ELSE [images |-> [r.images EXCEPT ![image_id].image_url = new_image_url],
          ok |-> r.ok, updated |-> r.updated + 1]

\* lines 96-115: UPDATE rv_listings SET featured_image = %s WHERE id = %s
update_featured_image(rows, rv_id, new_image_url) ==
    [rows EXCEPT ![rv_id].featured_image = Some(new_image_url)]

\* only the first external featured image is replaced
fix_featured_first(rows, ext, i, defaults) ==
    IF ext = <<>> THEN rows ELSE update_featured_image(rows, ext[1], defaults[1])

\* lines 206-213: the i-th external featured image gets
\* default_images[i % len(default_images)]
RECURSIVE fix_featured(_, _, _, _)
fix_featured(rows, ext, i, defaults) ==
    IF i >= Len(ext) THEN rows
    ELSE fix_featured(update_featured_image(rows, ext[i + 1], defaults[(i % Len(defaults)) + 1]),
                      ext, i + 1, defaults)

\* lines 217-224: the same for the external rows of rv_images
RECURSIVE fix_images(_, _, _, _)
fix_images(r, ext, i, defaults) ==
    IF i >= Len(ext) THEN r
    ELSE fix_images(update_rv_image(r, ext[i + 1], defaults[(i % Len(defaults)) + 1]),
                    ext, i + 1, defaults)

\* lines 152-158: the primary rows whose image_url differs from the
\* featured_image of their listing (a NULL featured_image differs from
\* nothing)
inconsistencies(rows, images) ==
    IdsWhere(Len(images), LAMBDA i :
        /\ images[i].is_primary
        /\ rows[images[i].rv_id].featured_image # None
        /\ Val(rows[images[i].rv_id].featured_image) # images[i].image_url)

\* lines 164-175: each of them is set to the featured image unless that is
\* an external URL
RECURSIVE align(_, _, _, _)
align(r, rows, found_, i) ==
    IF i > Len(found_) THEN r
    ELSE LET featured_image == Val(rows[r.images[found_[i]].rv_id].featured_image)
         IN  align(IF is_external(featured_image) THEN r
                   ELSE update_rv_image(r, found_[i], featured_image),
                   rows, found_, i + 1)

\* step 1 of main (lines 183-226): with no local image nothing is changed
fix_image_references ==
    /\ image_fix.step = "start"
    /\ LET defaults == default_images(image_fix.local_images)
           r == fix_images([images |-> rv_images, ok |-> TRUE, updated |-> 0],
                           rv_images_external(rv_images), 0, defaults)
       IN  IF image_fix.local_images = <<>>
           THEN /\ image_fix' = [image_fix EXCEPT !.step = "references"]
                /\ UNCHANGED <<rv_listings, rv_images>>
           ELSE /\ rv_listings' = fix_featured(rv_listings, featured_external(rv_listings), 0, defaults)
                /\ rv_images' = r.images
                /\ image_fix' = [image_fix EXCEPT
                                    !.step = "references", !.all_ok = r.ok,
                                    !.replaced = Len(featured_external(rv_listings)) + r.updated]
    /\ UNCHANGED <<manufacturers, converters, chassis_types, runvars, concvars, extvars, scrvars,
                   image_download, reset_run, scrape_run, listings_json, api>>

\* step 2 of main (lines 143-180)
align_primary_images ==
    /\ image_fix.step = "references"
    /\ LET r == align([images |-> rv_images, ok |-> image_fix.all_ok, updated |-> 0],
                      rv_listings, inconsistencies(rv_listings, rv_images), 1)
       IN  /\ rv_images' = r.images
           /\ image_fix' = [image_fix EXCEPT !.step = "done", !.all_ok = r.ok,
                                             !.aligned = r.updated]
    /\ UNCHANGED <<rv_listings, manufacturers, converters, chassis_types, runvars, concvars,
                   extvars, scrvars, image_download, reset_run, scrape_run, listings_json, api>>

\* the database and the image directory when the script starts
FixUrls == {<<"h", "t", "t", "p", ":", "/", "/", "x", "/", "a", ".", "j", "p", "g">>, <<"/", "i", "m", "a", "g", "e", "s", "/", "r", "v", "_", "l", "i", "s", "t", "i", "n", "g", "s", "/", "a", ".", "j", "p", "g">>, <<"/", "i", "m", "a", "g", "e", "s", "/", "r", "v", "_", "l", "i", "s", "t", "i", "n", "g", "s", "/", "r", "v", "_", "m", "a", "i", "n", ".", "j", "p", "g">>}
FixListings ==
    UNION {[1..n -> [featured_image : {None} \cup {Some(u) : u \in FixUrls}]] : n \in 1..MaxFixListings}
FixImages(n) ==
    {imgs \in UNION {[1..m -> [rv_id : 1..n, image_url : FixUrls, is_primary : BOOLEAN]]
                        : m \in 0..MaxFixImages} :
        \A i, j \in 1..Len(imgs) :
            (imgs[i].rv_id = imgs[j].rv_id /\ imgs[i].image_url = imgs[j].image_url) => i = j}
LocalImages ==
    {<<>>, <<<<"/", "i", "m", "a", "g", "e", "s", "/", "r", "v", "_", "l", "i", "s", "t", "i", "n", "g", "s", "/", "b", ".", "j", "p", "g">>>>,
     <<<<"/", "i", "m", "a", "g", "e", "s", "/", "r", "v", "_", "l", "i", "s", "t", "i", "n", "g", "s", "/", "b", ".", "j", "p", "g">>, <<"/", "i", "m", "a", "g", "e", "s", "/", "r", "v", "_", "l", "i", "s", "t", "i", "n", "g", "s", "/", "r", "v", "_", "m", "a", "i", "n", ".", "j", "p", "g">>>>}

InitFix ==
    /\ rv_listings \in FixListings
    /\ rv_images \in FixImages(Len(rv_listings))
    /\ manufacturers = <<>> /\ converters = <<>> /\ chassis_types = <<>>
    /\ InitRun /\ InitConc /\ InitExt /\ InitScr
    /\ image_download = [state |-> "idle", max_retries |-> 0, attempt |-> 0, requests |-> 0,
                         outcomes |-> <<>>, result |-> None]
    /\ \E local_images \in LocalImages :
          image_fix = [step |-> "start", local_images |-> local_images, all_ok |-> TRUE,
                       replaced |-> 0, aligned |-> 0]
    /\ reset_run = [step |-> "idle", scraper_started |-> FALSE, deleted |-> <<0, 0>>]
    /\ scrape_run = [step |-> "idle", all_rows |-> <<>>, row |-> 1, link |-> 1, repeated |-> 0]
    /\ listings_json = None
    /\ api = [DATA |-> <<>>, items |-> <<>>, sort |-> "", dir |-> "", response |-> [tag |-> "none"]]
NextFix == fix_image_references \/ align_primary_images
SpecFix == InitFix /\ [][NextFix]_vars

\* ------------------------------------------------------------------------
\* reset_listings.py: main() runs reset_listings and then run_scraper.  The
\* connection is in autocommit mode (line 27): every statement is a
\* transaction of its own.
\* ------------------------------------------------------------------------
\* lines 18-31, called at line 35: no connection ends the script (sys.exit)
reset_get_db_connection(ok) ==
    /\ reset_run.step = "idle"
    /\ reset_run' = [reset_run EXCEPT !.step = IF ok THEN "connected" ELSE "exited"]
    /\ UNCHANGED <<dbvars, runvars, concvars, extvars, scrvars, image_download, image_fix,
                   scrape_run, listings_json, api>>

\* lines 39-41: DELETE FROM rv_images; a psycopg2.Error makes reset_listings
\* return False (lines 53-55)
delete_rv_images(ok) ==
    /\ reset_run.step = "connected"
    /\ IF ok
       THEN /\ rv_images' = <<>>
            /\ reset_run' = [reset_run EXCEPT !.step = "images_deleted",
                                              !.deleted[1] = Len(rv_images)]
       ELSE /\ UNCHANGED rv_images
            /\ reset_run' = [reset_run EXCEPT !.step = "returned_False"]
    /\ UNCHANGED <<rv_listings, manufacturers, converters, chassis_types, runvars, concvars,
                   extvars, scrvars, image_download, image_fix, scrape_run, listings_json, api>>

\* DELETE FROM rv_listings as the first statement
delete_rv_listings_first(ok) ==
    /\ reset_run.step \in {"connected", "images_deleted"}
    /\ IF ok
       THEN /\ rv_listings' = <<>>
            /\ reset_run' = [reset_run EXCEPT !.step = "listings_deleted",
                                              !.deleted[2] = Len(rv_listings)]
       ELSE /\ UNCHANGED rv_listings
            /\ reset_run' = [reset_run EXCEPT !.step = "returned_False"]
    /\ UNCHANGED <<rv_images, manufacturers, converters, chassis_types, runvars, concvars,
                   extvars, scrvars, image_download, image_fix, scrape_run, listings_json, api>>

\* lines 43-45: DELETE FROM rv_listings
delete_rv_listings(ok) ==
    /\ reset_run.step = "images_deleted"
    /\ IF ok
       THEN /\ rv_listings' = <<>>
            /\ reset_run' = [reset_run EXCEPT !.step = "listings_deleted",
                                              !.deleted[2] = Len(rv_listings)]
       ELSE /\ UNCHANGED rv_listings
            /\ reset_run' = [reset_run EXCEPT !.step = "returned_False"]
    /\ UNCHANGED <<rv_images, manufacturers, converters, chassis_types, runvars, concvars,
                   extvars, scrvars, image_download, image_fix, scrape_run, listings_json, api>>

\* lines 47-52: SELECT COUNT(*) FROM rv_listings, then return True
count_remaining(ok) ==
    /\ reset_run.step = "listings_deleted"
    /\ reset_run' = [reset_run EXCEPT !.step = IF ok THEN "returned_True" ELSE "returned_False"]
    /\ UNCHANGED <<dbvars, runvars, concvars, extvars, scrvars, image_download, image_fix,
                   scrape_run, listings_json, api>>

\* lines 78-89 and 60-72: after True, subprocess.run starts the scraper,
\* whose result only chooses the message
run_scraper(result) ==
    /\ reset_run.step = "returned_True"
    /\ reset_run' = [reset_run EXCEPT !.step = "done", !.scraper_started = TRUE]
    /\ UNCHANGED <<dbvars, runvars, concvars, extvars, scrvars, image_download, image_fix,
                   scrape_run, listings_json, api>>

\* lines 80-82: after False, main returns
reset_failed_exit ==
    /\ reset_run.step = "returned_False"
    /\ reset_run' = [reset_run EXCEPT !.step = "done"]
    /\ UNCHANGED <<dbvars, runvars, concvars, extvars, scrvars, image_download, image_fix,
                   scrape_run, listings_json, api>>

ScraperResults == {"ok", "CalledProcessError", "Exception"}

\* the database when the script starts
InitReset ==
    /\ rv_listings \in FixListings
    /\ rv_images \in FixImages(Len(rv_listings))
    /\ manufacturers = <<>> /\ converters = <<>> /\ chassis_types = <<>>
    /\ InitRun /\ InitConc /\ InitExt /\ InitScr /\ InitOps
NextReset ==
    \/ \E ok \in BOOLEAN : reset_get_db_connection(ok)
    \/ \E ok \in BOOLEAN : delete_rv_images(ok)
    \/ \E ok \in BOOLEAN : delete_rv_listings(ok)
    \/ \E ok \in BOOLEAN : count_remaining(ok)
    \/ \E result \in ScraperResults : run_scraper(result)
    \/ reset_failed_exit
SpecReset == InitReset /\ [][NextReset]_vars

\* ------------------------------------------------------------------------
\* prevost_scraper.scrape, the whole run (lines 43-163): the rows of the
\* page, the loops over the rows and their links, the file written at the
\* end.  A row of the page is [class, cells, text, links, featured]: whether
\* its class names "row" or "listing", the number of its td cells, its
\* text, its <a href> tags as [text, href] and what download_img returns
\* for its image.
\* ------------------------------------------------------------------------
MaxPageRows == 2    \* rows of a page built from the kinds of row below

\* lines 50-64: the rows of the first pattern, then those of the second; all
\* the rows of the page when neither pattern finds one
all_rows_of(page) ==
    LET by_class == SelectSeq(page, LAMBDA tr : tr.class)
        by_content == SelectSeq(page, LAMBDA tr : tr.links # <<>> /\ tr.cells >= 2)
    IN  IF by_class \o by_content = <<>> THEN page ELSE by_class \o by_content

\* line 45: the page is fetched and parsed, the loops start at the first row
scrape_fetch(page) ==
    /\ scrape_run.step = "idle"
    /\ scrape_run' = [step |-> "rows", all_rows |-> all_rows_of(page), row |-> 1, link |-> 1,
                      repeated |-> 0]
    /\ listings' = <<>>
    /\ seen' = {}
    /\ UNCHANGED <<dbvars, runvars, concvars, extvars, image_download, image_fix, reset_run,
                   listings_json, api>>

\* lines 66-74: a row with fewer than two cells is passed, and so is a row
\* whose links are all done or that has none
scrape_pass_row ==
    /\ scrape_run.step = "rows"
    /\ scrape_run.row <= Len(scrape_run.all_rows)
    /\ Len(listings) < MAX_ITEMS
    /\ LET tr == scrape_run.all_rows[scrape_run.row]
       IN  tr.cells < 2 \/ scrape_run.link > Len(tr.links)
    /\ scrape_run' = [scrape_run EXCEPT !.row = scrape_run.row + 1, !.link = 1]
    /\ UNCHANGED <<dbvars, runvars, concvars, extvars, scrvars, image_download, image_fix,
                   reset_run, listings_json, api>>

\* lines 74-155: one link of the row; after the append that reaches
\* MAX_ITEMS both loops end
scrape_link ==
    /\ scrape_run.step = "rows"
    /\ scrape_run.row <= Len(scrape_run.all_rows)
    /\ Len(listings) < MAX_ITEMS
    /\ LET tr == scrape_run.all_rows[scrape_run.row]
       IN  /\ tr.cells >= 2 /\ scrape_run.link <= Len(tr.links)
           /\ LET a == tr.links[scrape_run.link]
                  title == scrape_title(a.text, tr.text)
              IN  IF scrape_skips(tr.text, a.href, title)
                  THEN /\ UNCHANGED scrvars
                       /\ scrape_run' =
                            [scrape_run EXCEPT
                               !.link = scrape_run.link + 1,
                               !.repeated = IF title \in seen THEN scrape_run.repeated + 1
                                            ELSE scrape_run.repeated]
                  ELSE /\ seen' = seen \cup {title}
                       /\ listings' = Append(listings, scrape_listing(tr.text, a.href, title, tr.featured))
                       /\ scrape_run' = [scrape_run EXCEPT !.link = scrape_run.link + 1]
    /\ UNCHANGED <<dbvars, runvars, concvars, extvars, image_download, image_fix, reset_run,
                   listings_json, api>>

\* lines 157-158: json.dump(listings) once the loops have ended
scrape_save ==
    /\ scrape_run.step = "rows"
    /\ scrape_run.row > Len(scrape_run.all_rows) \/ Len(listings) >= MAX_ITEMS
    /\ listings_json' = Some(listings)
    /\ scrape_run' = [scrape_run EXCEPT !.step = "saved"]
    /\ UNCHANGED <<dbvars, runvars, concvars, extvars, scrvars, image_download, image_fix,
                   reset_run, api>>

\* line 158: the message is printed and scrape returns
scrape_return ==
    /\ scrape_run.step = "saved"
    /\ scrape_run' = [scrape_run EXCEPT !.step = "returned"]
    /\ UNCHANGED <<dbvars, runvars, concvars, extvars, scrvars, image_download, image_fix,
                   reset_run, listings_json, api>>

\* lines 160-163: an exception anywhere in the try block, from the request
\* of line 45 to the print of line 158: json.dump([])
scrape_exception ==
    /\ scrape_run.step \in {"idle", "rows", "saved"}
    /\ listings_json' = Some(<<>>)
    /\ scrape_run' = [scrape_run EXCEPT !.step = "failed"]
    /\ UNCHANGED <<dbvars, runvars, concvars, extvars, scrvars, image_download, image_fix,
                   reset_run, api>>

\* the kinds of row of a page
AdHref == <<"a", "d", ".", "p", "h", "p", "?", "a", "d", "_", "i", "d", "=", "7">>
SavedImage == Some(<<"/", "i", "m", "a", "g", "e", "s", "/", "r", "v", "_", "l", "i", "s", "t", "i", "n", "g", "s", "/", "r", "v", ".", "j", "p", "g">>)
PageRowKinds ==
    {[class |-> TRUE, cells |-> 2, text |-> <<"C", "o", "a", "c", "h", " ", "A", " ", "$", "1">>, featured |-> SavedImage,
      links |-> <<[text |-> <<"C", "o", "a", "c", "h", " ", "A">>, href |-> AdHref]>>],
     [class |-> FALSE, cells |-> 3, text |-> <<"C", "o", "a", "c", "h", " ", "A", " ", "C", "o", "a", "c", "h", " ", "B", " ", "$", "2">>, featured |-> None,
      links |-> <<[text |-> <<"C", "o", "a", "c", "h", " ", "A">>, href |-> AdHref], [text |-> <<"C", "o", "a", "c", "h", " ", "B">>, href |-> AdHref],
                  [text |-> <<>>, href |-> AdHref]>>],
     [class |-> FALSE, cells |-> 2, text |-> <<"C", "o", "a", "c", "h", " ", "C">>, featured |-> None,
      links |-> <<[text |-> <<"C", "o", "a", "c", "h", " ", "C">>, href |-> AdHref]>>],
     [class |-> TRUE, cells |-> 1, text |-> <<"C", "o", "a", "c", "h", " ", "D", " ", "$", "4">>, featured |-> None,
      links |-> <<[text |-> <<"C", "o", "a", "c", "h", " ", "D">>, href |-> AdHref]>>],
     [class |-> FALSE, cells |-> 2, text |-> <<"D", "e", "a", "l", "e", "r", "s", " ", "$", "5">>, featured |-> None,
      links |-> <<[text |-> <<"D", "e", "a", "l", "e", "r", "s">>, href |-> <<"i", "n", "d", "e", "x", ".", "h", "t", "m">>]>>],
     [class |-> FALSE, cells |-> 2, text |-> <<"C", "o", "a", "c", "h", " ", "E", " ", "$", ",">>, featured |-> SavedImage,
      links |-> <<[text |-> <<"C", "o", "a", "c", "h", " ", "E">>, href |-> AdHref]>>]}

\* a page of more than MAX_ITEMS coaches, the first of them shown twice
NumberedRow(n) ==
    LET title == <<"C", "o", "a", "c", "h", " ">> \o <<DigitChar(n \div 10), DigitChar(n % 10)>>
    IN  [class |-> FALSE, cells |-> 2, text |-> title \o <<" ", "$", "1">>, featured |-> None,
         links |-> <<[text |-> title, href |-> AdHref]>>]
LongPage == <<NumberedRow(1)>> \o [n \in 1..(MAX_ITEMS + 2) |-> NumberedRow(n)]

Pages == UNION {[1..n -> PageRowKinds] : n \in 0..MaxPageRows} \cup {LongPage}

NextScrapeRun ==
    \/ \E page \in Pages : scrape_fetch(page)
    \/ scrape_pass_row
    \/ scrape_link
    \/ scrape_save
    \/ scrape_return
    \/ scrape_exception
SpecScrapeRun == Init /\ [][NextScrapeRun]_vars

\* ------------------------------------------------------------------------
\* api.py: the Listing model, sort_listings and the two endpoints that use
\* it.  A response is [tag |-> "list", val |-> the listings] or
\* [tag |-> "TypeError"], the exception sorted() raises when it compares a
\* str with an int.
\* ------------------------------------------------------------------------
MaxData == 2        \* listings loaded from listings.json

\* lines 7-15: the fields of Listing, those declared str and those
\* declared int
StrFields == {"title", "detail_url", "model", "converter", "featured_image"}
IntFields == {"price", "year", "slides"}
model_fields == StrFields \cup IntFields

\* the characters of the texts below, in the order of their code points
CodePoints == <<" ", "-", ".", "/", "3", "4", "5", "A", "B", "C", "H", "I", "L", "X",
                "a", "b", "c", "e", "g", "h", "i", "j", "o", "p", "r", "t", "y">>
CodePoint(c) == CHOOSE i \in 1..Len(CodePoints) : CodePoints[i] = c

\* a < b for two str
LessText(a, b) ==
    LET differ == {i \in 1..Len(a) : i <= Len(b) /\ a[i] # b[i]}
    IN  IF differ = {} THEN Len(a) < Len(b)
        ELSE CodePoint(a[Least(differ)]) < CodePoint(b[Least(differ)])

\* line 33: getattr(x, key) or 0
key_or_0(x, key) ==
    IF key \in StrFields
    THEN IF x[key] = None \/ x[key] = Some(<<>>) THEN [type |-> "int", val |-> 0]
         ELSE [type |-> "str", val |-> Val(x[key])]
    ELSE IF x[key] = None THEN [type |-> "int", val |-> 0]
         ELSE [type |-> "int", val |-> Val(x[key])]

\* a < b for two keys of one type
KeyLess(a, b) == IF a.type = "str" THEN LessText(a.val, b.val) ELSE a.val < b.val

\* sorted(items, key=..., reverse=reverse): a stable sort, and with reverse
\* the items with equal keys keep their order as well
sorted(items, key, reverse) ==
    LET k(i) == key_or_0(items[i], key)
        before(j, i) ==
            \/ IF reverse THEN KeyLess(k(i), k(j)) ELSE KeyLess(k(j), k(i))
            \/ k(j) = k(i) /\ j < i
        rank(i) == Cardinality({j \in 1..Len(items) : j # i /\ before(j, i)}) + 1
    IN  [p \in 1..Len(items) |-> items[CHOOSE i \in 1..Len(items) : rank(i) = p]]

\* lines 30-33
sort_listings(items, key, direction) ==
    IF key \notin model_fields THEN [tag |-> "list", val |-> items]
    ELSE IF \E i, j \in 1..Len(items) : key_or_0(items[i], key).type # key_or_0(items[j], key).type
    THEN [tag |-> "TypeError"]
    ELSE [tag |-> "list", val |-> sorted(items, key, direction = "desc")]

\* lines 35-37: GET /listings
listings_endpoint(sort, dir) ==
    /\ api' = [api EXCEPT !.items = api.DATA, !.sort = sort, !.dir = dir,
                          !.response = sort_listings(api.DATA, sort, dir)]
    /\ UNCHANGED <<dbvars, runvars, concvars, extvars, scrvars, image_download, image_fix,
                   reset_run, scrape_run, listings_json>>

\* lines 39-43: GET /search
search_endpoint(q, sort, dir) ==
    LET needle == Lower(q)
        hits == SelectSeq(api.DATA, LAMBDA l :
                    \/ Contains(Lower(Val(l.title)), needle)
                    \/ l.model \notin {None, Some(<<>>)} /\ Contains(Lower(Val(l.model)), needle))
    IN  /\ api' = [api EXCEPT !.items = hits, !.sort = sort, !.dir = dir,
                              !.response = sort_listings(hits, sort, dir)]
        /\ UNCHANGED <<dbvars, runvars, concvars, extvars, scrvars, image_download, image_fix,
                       reset_run, scrape_run, listings_json>>

\* the listings of listings.json, the sort parameters and the queries
ApiListings ==
    {[title |-> Some(<<"C", "o", "a", "c", "h", " ", "A">>), detail_url |-> Some(<<"h", "t", "t", "p", "/", "a">>), price |-> Some(5),
      year |-> Some(4), model |-> Some(<<"H", "3", "-", "4", "5">>), slides |-> Some(3), converter |-> None,
      featured_image |-> None],
     [title |-> Some(<<"C", "o", "a", "c", "h", " ", "B">>), detail_url |-> Some(<<"h", "t", "t", "p", "/", "b">>), price |-> Some(5),
      year |-> None, model |-> None, slides |-> Some(0), converter |-> Some(<<"L", "i", "b", "e", "r", "t", "y">>),
      featured_image |-> Some(<<"/", "a", ".", "j", "p", "g">>)],
     [title |-> Some(<<"C", "o", "a", "c", "h", " ", "C">>), detail_url |-> Some(<<"h", "t", "t", "p", "/", "c">>), price |-> Some(3),
      year |-> Some(5), model |-> Some(<<"X", "L", "I", "I">>), slides |-> None, converter |-> Some(<<"L", "i", "b", "e", "r", "t", "y">>),
      featured_image |-> None]}
SortKeys == model_fields \cup {"id"}
Directions == {"asc", "desc"}
Queries == {<<"c", "o">>, <<"h", "3">>}

InitApi ==
    /\ InitDb /\ InitRun /\ InitConc /\ InitExt /\ InitScr
    /\ image_download = [state |-> "idle", max_retries |-> 0, attempt |-> 0, requests |-> 0,
                         outcomes |-> <<>>, result |-> None]
    /\ image_fix = [step |-> "idle", local_images |-> <<>>, all_ok |-> TRUE,
                    replaced |-> 0, aligned |-> 0]
    /\ reset_run = [step |-> "idle", scraper_started |-> FALSE, deleted |-> <<0, 0>>]
    /\ scrape_run = [step |-> "idle", all_rows |-> <<>>, row |-> 1, link |-> 1, repeated |-> 0]
    /\ listings_json = None
    /\ \E DATA \in UNION {[1..n -> ApiListings] : n \in 0..MaxData} :
          api = [DATA |-> DATA, items |-> <<>>, sort |-> "", dir |-> "",
                 response |-> [tag |-> "none"]]
NextApi ==
    \/ \E sort \in SortKeys, dir \in Directions : listings_endpoint(sort, dir)
    \/ \E q \in Queries, sort \in SortKeys, dir \in Directions : search_endpoint(q, sort, dir)
SpecApi == InitApi /\ [][NextApi]_vars

\* ========================================================================
\* Claims about import_improved_data.py
\* ========================================================================
MergedValueFields == {"description", "year", "price", "mileage", "length", "slides"}

UpdateStep == outcome' = "updated" /\ existing_id' # 0

\* C1: in an Existing-state merge every merged field whose incoming value is
\* null or absent keeps the stored value, and every field whose incoming
\* value is non-null is overwritten by it.
C1_NullNeverOverwrites ==
    [][UpdateStep =>
        LET old == rv_listings[existing_id']
            new == rv_listings'[existing_id']
        IN  /\ \A f \in MergedValueFields :
                 new[f] = IF Get(listing', f) # None THEN Get(listing', f) ELSE old[f]
            /\ Get(listing', "converter") = None => new.converter_id = old.converter_id
            /\ Get(listing', "chassis_model") = None
                 => new.chassis_type_id = old.chassis_type_id
            /\ Get(listing', "converter") # None
                 => converters'[Val(new.converter_id)] = Val(Get(listing', "converter"))
            /\ Get(listing', "chassis_model") # None
                 => chassis_types'[Val(new.chassis_type_id)]
                      = Val(Get(listing', "chassis_model"))]_vars

UniqueTitles(tbl) ==
    \A i, j \in 1..Len(tbl) : i # j => tbl[i].title # tbl[j].title

\* C2: a call whose match key (the title the listing is stored under) is
\* shared by no stored row inserts exactly one row, a call whose match key is
\* shared by a stored row inserts none, and no two rows share a title, the
\* default title of title-less listings included.
C2_DedupStateMachine ==
    [][outcome' \in {"created", "updated"} =>
        LET key == GetD(listing', "title", Some(TitleDefault))
            shared == \E i \in 1..Len(rv_listings) : rv_listings[i].title = key
        IN  /\ Len(rv_listings') = Len(rv_listings) + (IF shared THEN 0 ELSE 1)
            /\ UniqueTitles(rv_listings')]_vars

\* case folding and whitespace collapsing of a title
LowerWord(w) ==
    CASE w = "Liberty" -> "liberty"
      [] w = "H3-45" -> "h3-45"
      [] OTHER -> w

RECURSIVE NormalizeTitle(_)
NormalizeTitle(t) ==
    IF t = <<>> THEN <<>>
    ELSE IF Head(t) = " " /\ Len(t) > 1 /\ t[2] = " " THEN NormalizeTitle(Tail(t))
    ELSE <<LowerWord(Head(t))>> \o NormalizeTitle(Tail(t))

MatchKey(row) ==
    IF row.title # Some(TitleDefault)
    THEN <<"title", NormalizeTitle(Val(row.title))>>
    ELSE <<"year, converter", row.year, row.converter_id>>

\* C3: listings whose titles differ only in letter case or runs of
\* whitespace, and title-less listings with the same (year, converter),
\* resolve to the same stored row: no two rows have the same match key.
C3_NormalizedMatchKey ==
    \A i, j \in 1..Len(rv_listings) :
        i # j => MatchKey(rv_listings[i]) # MatchKey(rv_listings[j])

\* C4: the existence check and the following INSERT/UPDATE of one execution
\* are never interleaved with those of another execution for the same title,
\* so that, also with two import runs at once, at most one rv_listings row
\* is created per title.
C4_SerializedPerTitle == UniqueTitles(rv_listings)

\* C5: after an update of an existing row, featured_image is the incoming
\* featured_image if that is non-null, and is unchanged otherwise.
C5_FeaturedImageCoalesce ==
    [][UpdateStep =>
        rv_listings'[existing_id'].featured_image =
            IF Get(listing', "featured_image") # None
            THEN Get(listing', "featured_image")
            ELSE rv_listings[existing_id'].featured_image]_vars

\* an update with no incoming featured image has kept a stored one
C5_Witness ==
    /\ outcome = "updated"
    /\ Get(listing, "featured_image") = None
    /\ rv_listings[existing_id].featured_image # None

\* C6: the rv_images rows of a listing hold every additional image URL ever
\* handed in for its title, and no URL more than once.
C6_ImagesAppendedOnce ==
    /\ \A s \in submitted :
         \E i \in 1..Len(rv_listings) :
            /\ rv_listings[i].title = s[1]
            /\ \E k \in 1..Len(rv_images) :
                 rv_images[k].rv_id = i /\ rv_images[k].image_url = s[2]
    /\ \A k, m \in 1..Len(rv_images) :
         (k # m /\ rv_images[k].rv_id = rv_images[m].rv_id)
            => rv_images[k].image_url # rv_images[m].image_url

\* ------------------------------------------------------------------------
\* Claims about the single-field extractors
\* ------------------------------------------------------------------------

\* C7: no exception escapes extract_price or extract_mileage: whatever the
\* input text, a call has returned an integer or None, and text that matches
\* the regex but fails the numeric conversion has yielded None.
C7_NoExceptionEscapes ==
    fn \in {"improved_rv_scraper.extract_price", "scripts/prevost_scraper.extract_price",
            "scrape_prevost.extract_price", "scrape_prevost.extract_mileage",
            "enhanced_scraper.extract_price"}
        => ret.tag \in {"int", "None"}

\* C9: extract_price returns the sentinel only for text with no extractable
\* dollar amount: when the text holds a numeric dollar amount, that amount
\* is returned even if the words of a call-for-pricing cue are present too.
C9_SentinelOnlyWhenPriceNull ==
    (/\ fn \in {"improved_rv_scraper.extract_price", "scripts/prevost_scraper.extract_price"}
     /\ price_from_match(text).tag = "int")
        => ret = price_from_match(text)

\* C10: price extraction of a text that contains "Please call for pricing",
\* in any letter case, yields the sentinel price 999999 and not None.
C10_CallForPricingYieldsSentinel ==
    (/\ fn \in {"improved_rv_scraper.extract_price", "scrape_prevost.extract_price",
                "enhanced_scraper.extract_price"}
     /\ Contains(Lower(text), Lower(PleaseCallForPricing)))
        => ret = ReturnInt(SentinelPrice)

\* ------------------------------------------------------------------------
\* Claims about prevost_scraper.py
\* ------------------------------------------------------------------------

\* the chassis models and the converters prevost_scraper.scrape knows
KnownModels == UNION {Range(model_patterns[i]) : i \in 1..Len(model_patterns)}
KnownConverters == Range(converter_names)

\* C8: in every listing record the scraper has emitted, the chassis model is
\* null or one of the known chassis models, and the converter is null or
\* one of the known converters, compared without regard to letter case.
C8_ClosedVocabulary ==
    \A i \in 1..Len(listings) :
        /\ listings[i].model # None
              => Lower(Val(listings[i].model)) \in {Lower(m) : m \in KnownModels}
        /\ listings[i].converter # None
              => Lower(Val(listings[i].converter)) \in {Lower(c) : c \in KnownConverters}

\* ------------------------------------------------------------------------
\* Claims about import_enhanced_listings.py
\* ------------------------------------------------------------------------

\* C11: a listing whose price is unknown (null or absent) is never stored
\* with the call-for-price sentinel 999999 as its price, so that unknown and
\* call-for-price stay distinguishable in rv_listings.
C11_SentinelDistinctFromAbsence ==
    (outcome = "created" /\ Get(listing, "price") = None)
        => rv_listings[Len(rv_listings)].price # Some(SentinelPrice)

\* ------------------------------------------------------------------------
\* Claims about price extraction
\* ------------------------------------------------------------------------

\* C12: price extraction of a text that contains "$1,234,567" yields
\* 1234567, of a text that contains "$950K" yields 950000, and of a text
\* that contains "$1.2M" yields 1200000.
C12_PriceNotations ==
    fn \in {"improved_rv_scraper.extract_price", "enhanced_scraper.extract_price"}
        => /\ Contains(text, <<"$", "1", ",", "2", "3", "4", ",", "5", "6", "7">>)
                => ret = ReturnInt(1234567)
           /\ Contains(text, <<"$", "9", "5", "0", "K">>) => ret = ReturnInt(950000)
           /\ Contains(text, <<"$", "1", ".", "2", "M">>) => ret = ReturnInt(1200000)

\* ------------------------------------------------------------------------
\* Claims about year extraction
\* ------------------------------------------------------------------------

\* C13: extract_year yields 2022 for a text that holds the year as "2022" and
\* for a text that holds it as "'22", wherever the short form stands: a text
\* whose only year is the short form 'nn yields 2000 + nn.
C13_ShortYearForm ==
    fn \in {"improved_rv_scraper.extract_year", "scrape_prevost.extract_year"}
        => /\ text = <<"2", "0", "2", "2">> => ret = ReturnInt(2022)
           /\ text \in {<<"'", "2", "2">>, <<" ", "'", "2", "2">>, <<"a", "'", "2", "2">>,
                        <<" ", "'", "2", "2", " ">>}
                => ret = ReturnInt(2022)

\* C14: the year a scraper stores in a listing record (the result of
\* table_scraper.extract_year, of enhanced_scraper.extract_year, and of the
\* URL match of improved_rv_scraper.scrape_listings) is null or an integer
\* in [1900, current_year + 1], for some current year of this century.
C14_YearInRange ==
    (/\ fn \in {"table_scraper.extract_year", "enhanced_scraper.extract_year",
                "improved_rv_scraper.scrape_listings year"}
     /\ ret.tag = "int")
        => \E current_year \in 2000..2099 : ret.val \in 1900..(current_year + 1)

\* ------------------------------------------------------------------------
\* Claims about chassis model detection
\* ------------------------------------------------------------------------
\* the text holds w as a token / holds the bare short name w, not the start
\* of the long name
HasToken(s, w) == \E i \in 1..Len(s) : WordAt(s, i, w)
HasBareToken(s, w, long) == \E i \in 1..Len(s) : WordAt(s, i, w) /\ ~MatchesAt(s, i, long)

\* C15: chassis extraction on a text that holds both "H3-45" and a bare "H3"
\* returns a chassis model and never "H3", whatever the order of the two; the
\* same for "X3-45" and "X3".
C15_MostSpecificChassis ==
    fn \in {"enhanced_scraper.detect_chassis_model", "improved_scraper.detect_chassis_model",
            "prevost_scraper.scrape model"}
        => /\ (HasToken(text, <<"H", "3", "-", "4", "5">>) /\ HasBareToken(text, <<"H", "3">>, <<"H", "3", "-", "4", "5">>))
                => (ret # None /\ Lower(Val(ret)) # <<"h", "3">>)
           /\ (HasToken(text, <<"X", "3", "-", "4", "5">>) /\ HasBareToken(text, <<"X", "3">>, <<"X", "3", "-", "4", "5">>))
                => (ret # None /\ Lower(Val(ret)) # <<"x", "3">>)

\* ------------------------------------------------------------------------
\* Claims about import_table_listings.py
\* ------------------------------------------------------------------------

\* C16: the chassis name is stored with its trailing dashes stripped: no name
\* in chassis_types ends with "-", and stripping a stored name again leaves
\* it as it is.
C16_ChassisDashTrimmed ==
    \A i \in 1..Len(chassis_types) :
        /\ chassis_types[i] # <<>> => chassis_types[i][Len(chassis_types[i])] # "-"
        /\ strip_dash(Some(chassis_types[i])) = Some(chassis_types[i])

\* year, converter and chassis model of a listing, those that are known, in
\* this order and separated by spaces
YearConverterChassis(l) ==
    Join(NumPart(l, "year", <<>>) \o TextPart(l, "converter", <<>>)
            \o TextPart(l, "chassis_model", <<>>), <<" ">>)

\* C17: a title that clean_listing_data has synthesized is made of the year,
\* the converter and the chassis model, those that are known, in this order
\* and followed at most by a brand suffix: with year 2009, converter Liberty
\* and chassis model H3-45 it starts with "2009 Liberty H3-45".
C17_TitleSynthesisOrder ==
    (outcome # "none" /\ Get(listing, "title") # Some(GivenTitle))
        => StartsWith(Val(Get(listing, "title")), YearConverterChassis(listing))

\* a record of scrape_prevost.py or scripts/prevost_scraper.py that knows
\* neither a year nor a model
NothingKnown(l) == "year" \notin DOMAIN l /\ "model" \notin DOMAIN l

\* C18: a listing of which neither the year nor the converter nor the chassis
\* model is known gets the fixed generic title, "Prevost RV" in the records
\* of scrape_prevost.py and scripts/prevost_scraper.py and "Luxury RV Coach"
\* in clean_listing_data, never a title made of the manufacturer or brand
\* word alone.
C18_TitleFallback ==
    /\ \A i \in 1..Len(listings) :
          NothingKnown(listings[i])
             => Val(listings[i]["title"]) = <<"P", "r", "e", "v", "o", "s", "t", " ", "R", "V">>
    /\ (/\ outcome # "none"
        /\ Get(listing, "title") # Some(GivenTitle)
        /\ YearConverterChassis(listing) = <<>>)
          => Get(listing, "title") = Some(<<"Luxury", " ", "RV", " ", "Coach">>)

\* the positions of a title at which a chassis model is mentioned, in any
\* letter case, with or without its dash
Mentions(title, chassis) ==
    {i \in 1..Len(title) :
        MatchesAt(title, i, chassis) \/ MatchesAt(title, i, Remove(chassis, {"-"}))}

\* C19: the title of a record of improved_rv_scraper.scrape_listings mentions
\* each of the chassis models H3-45, X3-45 and XLII at most once, whatever
\* the spelling (letter case, dash) of the mentions.
C19_ChassisMentionedOnce ==
    \A i \in 1..Len(listings) :
        \A chassis \in {<<"H", "3", "-", "4", "5">>, <<"X", "3", "-", "4", "5">>,
                        <<"X", "L", "I", "I">>} :
            Cardinality(Mentions(Val(listings[i]["title"]), chassis)) <= 1

\* C20: no record of a scraper and no row that an importer has inserted has
\* a title that is null or the empty string, also when the title cell of
\* the scraped row is empty and when the title of the JSON listing is null
\* or "".
C20_TitleNeverEmpty ==
    /\ \A i \in 1..Len(listings) :
          Get(listings[i], "title") \notin {None, Some(<<>>)}
    /\ \A i \in 1..Len(rv_listings) :
          rv_listings[i].title \notin {None, Some(<<>>)}

\* ------------------------------------------------------------------------
\* Claims about the slide count
\* ------------------------------------------------------------------------
\* the text names a slide count: a digit, then "slide"
NamesSlideCount(s) ==
    \E i \in 1..Len(s) :
        s[i] \in Digits /\ MatchesAt(s, RunEnd(s, i + 1, Whitespace) + 1, <<"s", "l", "i", "d", "e">>)

\* C21: a listing whose text names no slide count has the slide count 0, and
\* never null, in the record the scraper assembles and in the row of
\* rv_listings stored for it.
C21_SlidesDefaultZero ==
    /\ \A i \in 1..Len(listings) :
          ~NamesSlideCount(Val(Get(listings[i], "description")))
              => Get(listings[i], "slides") = Some(0)
    /\ \A i \in 1..Len(rv_listings) :
          /\ rv_listings[i].slides # None
          /\ ~NamesSlideCount(Val(rv_listings[i].description))
                => rv_listings[i].slides = Some(0)

\* ------------------------------------------------------------------------
\* Claims about the sources of a field
\* ------------------------------------------------------------------------
\* the value of a field: the one the title yields, else the one the
\* description yields
TitleFirst(from_title, from_description) ==
    IF from_title # None THEN from_title ELSE from_description

\* the year, the converter and the chassis model a text yields
YearIn(s) == Optional(enhanced_scraper_extract_year(s))
ChassisIn(l, s) ==
    IF "location" \in DOMAIN l THEN improved_scraper_detect_chassis_model(s)
    ELSE enhanced_scraper_detect_chassis_model(s)

\* C22: a value from a higher-priority source is never replaced by one from
\* a lower-priority source: the "Model:" / "Converter:" label of a row wins
\* over what the rest of the row's text suggests, and the year, the
\* converter and the chassis model of a record are those of the title when
\* the title yields them, those of the description only when it does not.
C22_HigherPrioritySourceWins ==
    /\ (fn = "prevost_scraper.scrape model" /\ model_label(text) # None)
          => ret = model_label(text)
    /\ (fn = "prevost_scraper.scrape converter" /\ TruthyText(converter_label(text)))
          => ret = converter_label(text)
    /\ \A i \in 1..Len(listings) :
          LET l == listings[i]
              title == Val(l["title"])
              description == Val(l["description"])
          IN  /\ l["year"] = TitleFirst(YearIn(title), YearIn(description))
              /\ l["converter"] = TitleFirst(detect_converter(title), detect_converter(description))
              /\ l["chassis_model"] = TitleFirst(ChassisIn(l, title), ChassisIn(l, description))

\* a label and the free text of a row disagree
C22_LabelDisagrees ==
    \/ /\ fn = "prevost_scraper.scrape model"
       /\ model_label(text) # None
       /\ first_word(text, model_patterns[1]) \notin {None, model_label(text)}
    \/ /\ fn = "prevost_scraper.scrape converter"
       /\ TruthyText(converter_label(text))
       /\ \E k \in 1..Len(converter_names) :
             /\ Contains(Lower(text), Lower(converter_names[k]))
             /\ converter_names[k] # Val(converter_label(text))

\* the title and the description of a record name different converters and
\* different years
C22_TitleDisagrees ==
    \E i \in 1..Len(listings) :
          LET title == Val(listings[i]["title"])
              description == Val(listings[i]["description"])
          IN  /\ detect_converter(title) # None
              /\ detect_converter(description) \notin {None, detect_converter(title)}
              /\ YearIn(title) # None
              /\ YearIn(description) \notin {None, YearIn(title)}

C22_Witness == C22_LabelDisagrees /\ C22_TitleDisagrees
\* ------------------------------------------------------------------------
\* Claims about the images of a listing
\* ------------------------------------------------------------------------
\* the additional images of a record as a sequence of paths or URLs
AdditionalOf(l) ==
    LET items == Val(GetD(l, "additionalImages", Some(<<>>)))
    IN  IF "make" \in DOMAIN l THEN items
        ELSE [i \in 1..Len(items) |-> items[i].imageUrl]

\* C23: in every emitted listing record the additional images do not
\* contain the featured image, whatever image URLs the page holds, the same
\* URL occurring more than once included.
C23_FeaturedNotInAdditional ==
    \A i \in 1..Len(listings) :
        Get(listings[i], "featuredImage") # None
            => Val(listings[i]["featuredImage"]) \notin Range(AdditionalOf(listings[i]))

\* ------------------------------------------------------------------------
\* Claims about the primary image of a listing
\* ------------------------------------------------------------------------
\* C24: after any sequence of imports by import_improved_data.py, every
\* rv_images row marked is_primary has the image_url that is the
\* featured_image of its listing's row in rv_listings.
C24_PrimaryImageIsFeatured ==
    \A i \in 1..Len(rv_images) :
        rv_images[i].is_primary
            => rv_listings[rv_images[i].rv_id].featured_image = Some(rv_images[i].image_url)

\* ------------------------------------------------------------------------
\* Claims about the transactions of import_enhanced_listings.py
\* ------------------------------------------------------------------------
\* the image rows a listing asks for are rows of rv_images under rv_id
ImagesStored(l, rv_id, imgs) ==
    /\ \A item \in Range(Val(GetD(l, "additional_images",
                                  GetD(l, "additionalImages", Some(<<>>))))) :
          image_conflict(imgs, rv_id, item.imageUrl)
    /\ Truthy(enhanced_featured_image(l))
          => image_conflict(imgs, rv_id, Val(enhanced_featured_image(l)))

\* C25: one iteration of import_listings_to_database counts the listing once,
\* as imported or as an error; a listing counted as an error leaves no row in
\* rv_listings and no row in rv_images, and a listing counted as imported
\* leaves exactly one row in rv_listings and all of its image rows.
C25_AllOrNothingPerListing ==
    [][(counts'.imported + counts'.error > counts.imported + counts.error)
        => /\ counts'.imported + counts'.error = counts.imported + counts.error + 1
           /\ counts'.error > counts.error
                => rv_listings' = rv_listings /\ rv_images' = rv_images
           /\ counts'.imported > counts.imported
                => /\ Len(rv_listings') = Len(rv_listings) + 1
                   /\ SubSeq(rv_listings', 1, Len(rv_listings)) = rv_listings
                   /\ ImagesStored(listing', Len(rv_listings'), rv_images')]_vars

\* ------------------------------------------------------------------------
\* Claims about improved_rv_scraper.download_image
\* ------------------------------------------------------------------------
\* what holds of a call at every moment
DownloadBounded ==
    LET n == Len(image_download.outcomes)
    IN  /\ image_download.requests <= image_download.max_retries
        /\ \A i \in 1..(n - 1) : image_download.outcomes[i] \in {"empty", "network_error"}
        /\ (image_download.result # None)
              <=> (image_download.state = "returned" /\ n > 0 /\ image_download.outcomes[n] = "saved")
        /\ (image_download.state = "returned" /\ n > 0 /\ image_download.outcomes[n] \in {"empty", "network_error"})
              => image_download.requests = image_download.max_retries
        /\ (n > 0 /\ image_download.outcomes[n] \in {"saved", "exception"})
              => image_download.state = "returned"

\* C26: download_image ends after at most max_retries requests: it tries
\* again only after a network error or an empty file, makes no request after
\* the pass that saved a file that is not empty, returns a web path in that
\* case only, returns None when the passes are used up and returns None at
\* once on another exception.
C26_DownloadTerminates ==
    /\ []DownloadBounded
    /\ (image_download.state = "running") ~> (image_download.state = "returned")

\* a call that tried twice in vain and saved the file on the third pass
C26_Witness ==
    /\ image_download.state = "returned"
    /\ image_download.result # None
    /\ image_download.outcomes = <<"network_error", "empty", "saved">>

\* ------------------------------------------------------------------------
\* Claims about fix_rv_images.py
\* ------------------------------------------------------------------------
NoExternalImage ==
    /\ \A i \in 1..Len(rv_listings) :
          rv_listings[i].featured_image = None \/ ~is_external(Val(rv_listings[i].featured_image))
    /\ \A i \in 1..Len(rv_images) : ~is_external(rv_images[i].image_url)
PrimaryAligned ==
    \A i \in 1..Len(rv_images) :
        rv_images[i].is_primary
            => rv_listings[rv_images[i].rv_id].featured_image = Some(rv_images[i].image_url)
PrimaryHasFeatured ==
    \A i \in 1..Len(rv_images) :
        rv_images[i].is_primary => rv_listings[rv_images[i].rv_id].featured_image # None

C28_ResetOrdering ==
    /\ [][/\ Len(rv_listings') < Len(rv_listings) => rv_images = <<>>
          /\ (reset_run'.scraper_started /\ ~reset_run.scraper_started)
                => reset_run.step = "returned_True"
          /\ reset_run.step \in {"returned_False", "exited"} => ~reset_run'.scraper_started]_vars
    /\ [](reset_run.step \in {"returned_False", "exited"} => ~reset_run.scraper_started)

\* a run that deleted rows of both tables and started the scraper
C28_Witness ==
    /\ reset_run.step = "done" /\ reset_run.scraper_started
    /\ reset_run.deleted[1] > 0 /\ reset_run.deleted[2] > 0
    /\ rv_listings = <<>> /\ rv_images = <<>>

\* ------------------------------------------------------------------------
\* Claims about the file prevost_scraper.scrape writes
\* ------------------------------------------------------------------------
\* a list of at most MAX_ITEMS listings with titles that are not empty and
\* differ from one another and with integer prices
WellFormedListings(ls) ==
    /\ Len(ls) <= MAX_ITEMS
    /\ \A i \in 1..Len(ls) : ls[i].title # <<>> /\ ls[i].price \in Nat
    /\ \A i, j \in 1..Len(ls) : ls[i].title = ls[j].title => i = j

\* C29: after scrape() has returned listings.json holds at most MAX_ITEMS
\* listings with titles that are not empty and pairwise distinct and with
\* integer prices, whatever rows and links the page has; after an exception
\* it holds the empty array.
C29_ListingsFile ==
    /\ scrape_run.step \in {"saved", "returned"}
          => listings_json = Some(listings) /\ WellFormedListings(Val(listings_json))
    /\ scrape_run.step = "failed" => listings_json = Some(<<>>)
    /\ scrape_run.step \in {"idle", "rows"} => listings_json = None

\* a run that stopped at MAX_ITEMS listings with rows left, having passed a
\* title it had seen
C29_Witness ==
    /\ scrape_run.step = "returned"
    /\ Len(Val(listings_json)) = MAX_ITEMS
    /\ scrape_run.row <= Len(scrape_run.all_rows)
    /\ scrape_run.repeated > 0

\* ------------------------------------------------------------------------
\* Claims about api.py
\* ------------------------------------------------------------------------
\* C30: sort_listings never raises: with a key that is no field of Listing
\* it returns the items as they are, and with a field, the optional str
\* fields included, a permutation of the items ordered by that field, None
\* counting as 0, descending exactly when the direction is "desc".
C30_SortNeverRaises ==
    api.response.tag # "none"
        => /\ api.response.tag = "list"
           /\ api.sort \notin model_fields => api.response.val = api.items
           /\ api.sort \in model_fields =>
                LET out == api.response.val
                    k(i) == key_or_0(out[i], api.sort)
                IN  /\ Len(out) = Len(api.items)
                    /\ \A l \in Range(api.items) :
                          Cardinality({i \in 1..Len(out) : out[i] = l})
                              = Cardinality({i \in 1..Len(api.items) : api.items[i] = l})
                    /\ \A i \in 1..(Len(out) - 1) :
                          IF api.dir = "desc" THEN ~KeyLess(k(i), k(i + 1))
                          ELSE ~KeyLess(k(i + 1), k(i))

====
